---------------------------- MODULE Spec2Model ----------------------------
(***************************************************************************)
(* A model of the response-normalization pipeline of the nutrition         *)
(* provider service: the response extractor (utils.py), the nutrition      *)
(* normalizer (models.py), the component aggregator                        *)
(* (claude_vision_service.py, utils.py) and the lambda handler.            *)
(*                                                                         *)
(* Texts are sequences of one-character strings.  JSON values are records  *)
(* of one shape, so that any two of them can be compared:                  *)
(*   t     the JSON type: "null", "bool", "num", "str", "arr", "obj"       *)
(*   n     a number in tenths (3.6 is 36); a bool as 0 / 1                 *)
(*   s     the characters of a string                                      *)
(*   items the elements of an array                                        *)
(*   kv    the members of an object, [k, v] records in insertion order     *)
(***************************************************************************)
EXTENDS Integers, Sequences, FiniteSets, TLC

VARIABLES
    text,       \* the raw reply text handed to extract_json_from_response
    ex_pc,      \* the extractor's position: "idle", "start", "selected", "done"
    json_str,   \* the span chosen by the three ordered attempts
    attempt,    \* which attempt chose it: 0 (none yet), 1, 2 or 3
    ex_ret,     \* what the call did: returned a value, returned None, or raised
    nd_pc,      \* the normalizer's position: "idle", "start", "done"
    nd_data,    \* the value handed to create_nutrition_data_from_dict
    nd_ret,     \* what the seven-field variant did with it
    nd4_ret,    \* what the four-field variant did with it
    nd_again,   \* what the seven-field variant returns for its own output, flattened
    nd4_again,  \* the same for the four-field variant
    ag_pc,      \* the aggregator's position: "idle", "loop", "cleanup", "done"
    ag_components,  \* the components handed to calculate_total_nutrition
    ag_i,       \* the number of components the loop has added
    ag_totals,  \* the totals dict
    ag_ret,     \* "pending", "return" or the exception raised
    pp_pc,      \* _parse_claude_response: "idle", "begin", "loop", "respond", "done"
    response_json,  \* the parsed reply handed to _parse_claude_response
    pp_items,   \* the values the loop over the components iterates
    pp_i,       \* the number of components the loop has built
    pp_components,  \* the FoodComponents built so far
    pp_totals,  \* total_calories, total_protein, total_carbs, total_fat
    pp_ret,     \* "pending", "return" or the exception raised
    pp_msg,     \* str(e) of the exception raised
    pp_result,  \* the ClaudeAnalysisResult returned
    api_response,   \* what get_api_response made of it
    dt_pc,      \* the direct-total _parse_claude_response: "idle", "begin", "loop", "done"
    dt_json,    \* the parsed reply handed to it
    dt_items,   \* the values the loop over the components iterates
    dt_i,       \* the number of components the loop has built
    dt_components,  \* the FoodComponents built so far
    dt_ret,     \* "pending", "return" or the exception raised
    dt_msg,     \* str(e) of the exception raised
    dt_result,  \* the ClaudeAnalysisResult returned
    h_pc,       \* lambda_handler: "idle", "start", "analyze", "call", "extract", "parse", "done"
    event,      \* the event's body: absent, a string, or a value already decoded
    h_inputs,   \* text_description and image_base64 as read from the body
    request,    \* what analyze_food sends to the model client
    calls,      \* the number of calls of client.messages.create
    h_response, \* the response lambda_handler returns
    da_pc,      \* analyze_food of the direct-total variant: "idle", "analyze", "call", "extract", "parse", "done"
    da_inputs,  \* its arguments text_description and image_base64
    da_request, \* what it sends to the model client
    da_calls,   \* the number of its calls of client.messages.create
    da_out,     \* how it ended: the result returned or the exception raised
    bt_pc,      \* fetch_nutrition_batch: "idle", "submit", "gather", "exit", "convert", "done"
    products,   \* the product names of the request
    futures,    \* one future per product: its state and the result of its lookup
    bt_raised,  \* the index of the lookup whose exception gather raised, 0 if none
    batch_results, \* the list asyncio.gather returned
    results,    \* the entries appended so far
    bt_response \* what the endpoint answers

ex_vars == <<text, ex_pc, json_str, attempt, ex_ret>>

nd_vars == <<nd_pc, nd_data, nd_ret, nd4_ret, nd_again, nd4_again>>

ag_vars == <<ag_pc, ag_components, ag_i, ag_totals, ag_ret>>

pp_vars == <<pp_pc, response_json, pp_items, pp_i, pp_components, pp_totals,
             pp_ret, pp_msg, pp_result, api_response>>

dt_vars == <<dt_pc, dt_json, dt_items, dt_i, dt_components, dt_ret, dt_msg, dt_result>>

h_vars == <<h_pc, event, h_inputs, request, calls, h_response>>

da_vars == <<da_pc, da_inputs, da_request, da_calls, da_out>>

bt_vars == <<bt_pc, products, futures, bt_raised, batch_results, results, bt_response>>

-----------------------------------------------------------------------------
(* Helpers on sequences and integers *)

Min(S) == CHOOSE x \in S : \A y \in S : x <= y

Max(S) == CHOOSE x \in S : \A y \in S : x >= y

Range(f) == { f[i] : i \in DOMAIN f }

RECURSIVE Flatten(_)
Flatten(ss) == IF ss = <<>> THEN <<>> ELSE Head(ss) \o Flatten(Tail(ss))

-----------------------------------------------------------------------------
(* JSON values *)

Scale == 10

NullV == [t |-> "null", n |-> 0, s |-> <<>>, items |-> <<>>, kv |-> <<>>]

BoolV(b) == [NullV EXCEPT !.t = "bool", !.n = IF b THEN 1 ELSE 0]

NumV(tenths) == [NullV EXCEPT !.t = "num", !.n = tenths]

StrV(chars) == [NullV EXCEPT !.t = "str", !.s = chars]

ArrV(vals) == [NullV EXCEPT !.t = "arr", !.items = vals]

\* float('nan'), which json.loads gives for the word NaN
NanV == [NullV EXCEPT !.t = "nan"]

ObjV(members) == [NullV EXCEPT !.t = "obj", !.kv = members]

KV(key, val) == [k |-> key, v |-> val]

HasKey(obj, key) == \E i \in DOMAIN obj.kv : obj.kv[i].k = key

\* dict[key] of a dict that has the key
Lookup(obj, key) == obj.kv[CHOOSE i \in DOMAIN obj.kv : obj.kv[i].k = key].v

\* dict[key] = val: a key already there keeps its place and takes the new value
DictSet(members, key, val) ==
    IF \E i \in DOMAIN members : members[i].k = key
    THEN [i \in DOMAIN members |->
            IF members[i].k = key THEN KV(key, val) ELSE members[i]]
    ELSE Append(members, KV(key, val))

-----------------------------------------------------------------------------
(* json.loads: utils.py line 91.  The decoder of the standard library,     *)
(* for the characters the texts of this model are made of: no backslash    *)
(* escapes and no exponents.  A result is [st, v, j]: st is "ok" with the  *)
(* value v read up to (excluding) position j, "err" for a                  *)
(* json.JSONDecodeError, or "raise" for a ValueError that is not a         *)
(* JSONDecodeError.                                                        *)

\* One symbol that stands for a run of 4301 digits '1': an integer literal
\* longer than the interpreter's limit on integer string conversion.
LongDigits == "1[x4301]"

JsonWS == {" ", "\n", "\t", "\r"}

Digits == {"0", "1", "2", "3", "4", "5", "6", "7", "8", "9"}

DigitVal(c) ==
    CASE c = "0" -> 0 [] c = "1" -> 1 [] c = "2" -> 2 [] c = "3" -> 3
      [] c = "4" -> 4 [] c = "5" -> 5 [] c = "6" -> 6 [] c = "7" -> 7
      [] c = "8" -> 8 [] c = "9" -> 9

PErr == [st |-> "err", v |-> NullV, j |-> 0]

PRaise == [st |-> "raise", v |-> NullV, j |-> 0]

POk(val, next) == [st |-> "ok", v |-> val, j |-> next]

\* the first position at or after i that holds no whitespace
SkipWS(s, i) ==
    Min({ j \in i..(Len(s) + 1) : j > Len(s) \/ s[j] \notin JsonWS })

\* the first position at or after i that holds no digit
SkipDigits(s, i) ==
    Min({ j \in i..(Len(s) + 1) : j > Len(s) \/ s[j] \notin Digits \cup {LongDigits} })

RECURSIVE DigitsVal(_, _, _)
\* the decimal value of the digits s[i..j-1]
DigitsVal(s, i, j) ==
    IF i >= j THEN 0 ELSE DigitsVal(s, i, j - 1) * 10 + DigitVal(s[j - 1])

At(s, i, c) == i <= Len(s) /\ s[i] = c

\* whether the characters of word stand at position i of s
WordAt(s, i, word) ==
    /\ i + Len(word) - 1 <= Len(s)
    /\ \A k \in 1..Len(word) : s[i + k - 1] = word[k]

\* scanstring: s[i] is the opening quote; strict mode refuses control characters
ParseString(s, i) ==
    LET closes == { j \in (i + 1)..Len(s) : s[j] = "\"" }
    IN  IF closes = {} THEN PErr
        ELSE LET e == Min(closes)
                 body == SubSeq(s, i + 1, e - 1)
             IN  IF \E k \in DOMAIN body : body[k] \in {"\n", "\t", "\r", "\\"}
                 THEN PErr
                 ELSE POk(StrV(body), e + 1)

\* NUMBER_RE: (-?(?:0|[1-9]\d*))(\.\d+)?  -- int() when there is no fraction,
\* and int() raises ValueError for more digits than the interpreter's limit
ParseNumber(s, i) ==
    LET neg == At(s, i, "-")
        b == IF neg THEN i + 1 ELSE i
    IN  IF ~(b <= Len(s) /\ s[b] \in Digits \cup {LongDigits}) THEN PErr
        ELSE LET ie == IF s[b] = "0" THEN b + 1 ELSE SkipDigits(s, b)
                 hasFrac == At(s, ie, ".") /\ ie + 1 <= Len(s)
                            /\ s[ie + 1] \in Digits
                 fe == IF hasFrac THEN SkipDigits(s, ie + 1) ELSE ie
                 frac == IF hasFrac THEN DigitVal(s[ie + 1]) ELSE 0
                 mag == DigitsVal(s, b, ie) * Scale + frac
             IN  IF ~hasFrac /\ \E k \in b..(ie - 1) : s[k] = LongDigits
                 THEN PRaise
                 ELSE POk(NumV(IF neg THEN 0 - mag ELSE mag), fe)

RECURSIVE ParseValue(_, _)
RECURSIVE ParseMembers(_, _, _)
RECURSIVE ParseItems(_, _, _)

\* scan_once
ParseValue(s, i) ==
    IF i > Len(s) THEN PErr
    ELSE CASE s[i] = "\"" -> ParseString(s, i)
           [] s[i] = "{" ->
                LET a == SkipWS(s, i + 1)
                IN  IF At(s, a, "}") THEN POk(ObjV(<<>>), a + 1)
                    ELSE ParseMembers(s, a, <<>>)
           [] s[i] = "[" ->
                LET a == SkipWS(s, i + 1)
                IN  IF At(s, a, "]") THEN POk(ArrV(<<>>), a + 1)
                    ELSE ParseItems(s, a, <<>>)
           [] s[i] = "n" ->
                IF WordAt(s, i, <<"n", "u", "l", "l">>)
                THEN POk(NullV, i + 4) ELSE PErr
           [] s[i] = "t" ->
                IF WordAt(s, i, <<"t", "r", "u", "e">>)
                THEN POk(BoolV(TRUE), i + 4) ELSE PErr
           [] s[i] = "f" ->
                IF WordAt(s, i, <<"f", "a", "l", "s", "e">>)
                THEN POk(BoolV(FALSE), i + 5) ELSE PErr
           [] s[i] = "N" ->
                IF WordAt(s, i, <<"N", "a", "N">>)
                THEN POk(NanV, i + 3) ELSE PErr
           [] s[i] \in Digits \cup {"-", LongDigits} -> ParseNumber(s, i)
           [] OTHER -> PErr

\* JSONObject, from the position of a member's key
ParseMembers(s, i, acc) ==
    IF ~At(s, i, "\"") THEN PErr
    ELSE LET key == ParseString(s, i)
         IN  IF key.st # "ok" THEN key
             ELSE LET c == SkipWS(s, key.j)
                  IN  IF ~At(s, c, ":") THEN PErr
                      ELSE LET val == ParseValue(s, SkipWS(s, c + 1))
                           IN  IF val.st # "ok" THEN val
                               ELSE LET d == SkipWS(s, val.j)
                                        acc2 == DictSet(acc, key.v.s, val.v)
                                    IN  IF At(s, d, "}")
                                        THEN POk(ObjV(acc2), d + 1)
                                        ELSE IF At(s, d, ",")
                                        THEN ParseMembers(s, SkipWS(s, d + 1), acc2)
                                        ELSE PErr

\* JSONArray, from the position of an element
ParseItems(s, i, acc) ==
    LET val == ParseValue(s, i)
    IN  IF val.st # "ok" THEN val
        ELSE LET d == SkipWS(s, val.j)
                 acc2 == Append(acc, val.v)
             IN  IF At(s, d, "]") THEN POk(ArrV(acc2), d + 1)
                 ELSE IF At(s, d, ",")
                 THEN ParseItems(s, SkipWS(s, d + 1), acc2)
                 ELSE PErr

\* JSONDecoder.decode: one value, whitespace around it, nothing after it
JsonLoads(s) ==
    LET r == ParseValue(s, SkipWS(s, 1))
    IN  IF r.st # "ok" THEN r
        ELSE IF SkipWS(s, r.j) <= Len(s) THEN PErr
        ELSE r

-----------------------------------------------------------------------------
(* extract_json_from_response: utils.py lines 66-93 *)

\* what \s of the re module matches, among the characters of this model
ReWS == {" ", "\n", "\t", "\r"}

\* the backtick character, which a TLA+ string cannot hold
Backtick == "<bq>"

Fence == <<Backtick, Backtick, Backtick>>

JsonTag == <<"j", "s", "o", "n">>

SkipReWS(s, i) ==
    Min({ j \in i..(Len(s) + 1) : j > Len(s) \/ s[j] \notin ReWS })

\* (?:json)?\s* after the fence at i: where the group's opening brace must be
GroupStart(s, i) ==
    SkipReWS(s, IF WordAt(s, i + 3, JsonTag) THEN i + 7 ELSE i + 3)

\* (\{.*?\})\s* and the fence: the closing braces that whitespace and a fence follow
GroupEnds(s, b) ==
    { e \in (b + 1)..Len(s) : s[e] = "}" /\ WordAt(s, SkipReWS(s, e + 1), Fence) }

\* the positions re.search can start a match of the fenced pattern at
FenceStarts(s) ==
    { i \in 1..Len(s) : /\ WordAt(s, i, Fence)
                        /\ At(s, GroupStart(s, i), "{")
                        /\ GroupEnds(s, GroupStart(s, i)) # {} }

\* match.group(1) of the leftmost match, the lazy .*? ending at the first end
FencedGroup(s) ==
    LET b == GroupStart(s, Min(FenceStarts(s)))
    IN  SubSeq(s, b, Min(GroupEnds(s, b)))

Opens(s) == { i \in 1..Len(s) : s[i] = "{" }

Closes(s) == { i \in 1..Len(s) : s[i] = "}" }

\* \{.*\} with DOTALL: the first opening brace through the last closing one
OuterMatches(s) == Opens(s) # {} /\ \E c \in Closes(s) : c > Min(Opens(s))

OuterSpan(s) == SubSeq(s, Min(Opens(s)), Max(Closes(s)))

\* lines 76-88: the span handed to json.loads, and the attempt that chose it
SelectSpan(s) ==
    IF FenceStarts(s) # {} THEN [attempt |-> 1, span |-> FencedGroup(s)]
    ELSE IF OuterMatches(s) THEN [attempt |-> 2, span |-> OuterSpan(s)]
    ELSE [attempt |-> 3, span |-> s]

Returned(val) == [kind |-> "return", exc |-> "", val |-> val]

Raised(exc) == [kind |-> "raise", exc |-> exc, val |-> NullV]

Pending == [kind |-> "pending", exc |-> "", val |-> NullV]

\* lines 90-93: None (the null value) for a JSONDecodeError, and only for it
LoadSpan(span) ==
    LET r == JsonLoads(span)
    IN  CASE r.st = "ok" -> Returned(r.v)
          [] r.st = "err" -> Returned(NullV)
          [] OTHER -> Raised("ValueError")

extract_json_from_response(s) == LoadSpan(SelectSpan(s).span)

-----------------------------------------------------------------------------
(* json.dumps with its default separators: handler.py lines 56-59.  A      *)
(* number with no tenths is written as an integer.                         *)

DigitChar(d) == CHOOSE c \in Digits : DigitVal(c) = d

RECURSIVE IntChars(_)
IntChars(k) ==
    IF k < 10 THEN <<DigitChar(k)>>
    ELSE IntChars(k \div 10) \o <<DigitChar(k % 10)>>

NumChars(tenths) ==
    LET mag == IF tenths < 0 THEN 0 - tenths ELSE tenths
    IN  (IF tenths < 0 THEN <<"-">> ELSE <<>>)
        \o IntChars(mag \div Scale)
        \o (IF mag % Scale = 0 THEN <<>> ELSE <<".", DigitChar(mag % Scale)>>)

RECURSIVE Serialize(_)
RECURSIVE SerializeItems(_)
RECURSIVE SerializeMembers(_)

Serialize(v) ==
    CASE v.t = "null" -> <<"n", "u", "l", "l">>
      [] v.t = "bool" -> IF v.n = 1 THEN <<"t", "r", "u", "e">>
                         ELSE <<"f", "a", "l", "s", "e">>
      [] v.t = "num" -> NumChars(v.n)
      [] v.t = "str" -> <<"\"">> \o v.s \o <<"\"">>
      [] v.t = "arr" -> <<"[">> \o SerializeItems(v.items) \o <<"]">>
      [] v.t = "obj" -> <<"{">> \o SerializeMembers(v.kv) \o <<"}">>
      [] v.t = "nan" -> <<"N", "a", "N">>

SerializeItems(vals) ==
    IF vals = <<>> THEN <<>>
    ELSE Serialize(Head(vals))
         \o (IF Len(vals) = 1 THEN <<>> ELSE <<",", " ">> \o SerializeItems(Tail(vals)))

SerializeMembers(members) ==
    IF members = <<>> THEN <<>>
    ELSE <<"\"">> \o Head(members).k \o <<"\"", ":", " ">> \o Serialize(Head(members).v)
         \o (IF Len(members) = 1 THEN <<>>
             ELSE <<",", " ">> \o SerializeMembers(Tail(members)))

-----------------------------------------------------------------------------
(* Python's bool(), float() and dict.get() on JSON values *)

\* truthiness: None, False, 0, "", [] and {} are falsy
Truthy(v) ==
    CASE v.t = "null" -> FALSE
      [] v.t = "bool" -> v.n = 1
      [] v.t = "num" -> v.n # 0
      [] v.t = "str" -> v.s # <<>>
      [] v.t = "arr" -> v.items # <<>>
      [] v.t = "obj" -> v.kv # <<>>
      [] v.t = "nan" -> TRUE

DictGet(obj, key, default) == IF HasKey(obj, key) THEN Lookup(obj, key) ELSE default

FOk(tenths) == [st |-> "ok", exc |-> "", n |-> tenths]

FErr(exc) == [st |-> "raise", exc |-> exc, n |-> 0]

\* str.strip() of the text of a number
Strip(s) ==
    LET keep == { i \in DOMAIN s : s[i] \notin JsonWS }
    IN  IF keep = {} THEN <<>> ELSE SubSeq(s, Min(keep), Max(keep))

\* float() of a string: a sign, digits and a fraction of digits, with
\* whitespace around them; anything else is a ValueError
FloatOfStr(s) ==
    LET t == Strip(s)
        r == ParseNumber(t, 1)
    IN  IF t # <<>> /\ t[1] \in Digits \cup {"-"} /\ r.st = "ok" /\ r.j = Len(t) + 1
        THEN FOk(r.v.n)
        ELSE FErr("ValueError")

\* a float() that would give 0.0 for what it cannot convert
PyFloatOrZero(v) ==
    CASE v.t \in {"num", "bool"} -> FOk(v.n * (IF v.t = "bool" THEN Scale ELSE 1))
      [] v.t = "str" -> IF FloatOfStr(v.s).st = "ok" THEN FloatOfStr(v.s) ELSE FOk(0)
      [] OTHER -> FOk(0)

\* float(v): numbers and bools convert, strings are parsed, None, lists and
\* dicts are a TypeError
PyFloat(v) ==
    CASE v.t \in {"num", "bool"} -> FOk(v.n * (IF v.t = "bool" THEN Scale ELSE 1))
      [] v.t = "str" -> FloatOfStr(v.s)
      [] OTHER -> FErr("TypeError")

-----------------------------------------------------------------------------
(* create_nutrition_data_from_dict:                                        *)
(* analyse_food_image_lambda/service/models.py lines 168-178 (seven        *)
(* fields) and food-analysis-lambda/service/models.py lines 82-89 (the     *)
(* four macros only)                                                       *)

K_calories == <<"c", "a", "l", "o", "r", "i", "e", "s">>

K_protein == <<"p", "r", "o", "t", "e", "i", "n">>

K_carbs == <<"c", "a", "r", "b", "s">>

K_fat == <<"f", "a", "t">>

K_fiber == <<"f", "i", "b", "e", "r">>

K_sugar == <<"s", "u", "g", "a", "r">>

K_sodium == <<"s", "o", "d", "i", "u", "m">>

RequiredKeys == <<K_calories, K_protein, K_carbs, K_fat>>

OptionalKeys == <<K_fiber, K_sugar, K_sodium>>

\* an optional number: None, or a value in tenths
None == [some |-> FALSE, v |-> 0]

Some(tenths) == [some |-> TRUE, v |-> tenths]

\* NutritionData of the seven-field dataclass
NutritionData(cal, pro, carb, fat, fib, sug, sod) ==
    [calories |-> cal, protein |-> pro, carbs |-> carb, fat |-> fat,
     fiber |-> fib, sugar |-> sug, sodium |-> sod]

\* NutritionData of the four-field dataclass
NutritionData4(cal, pro, carb, fat) ==
    [calories |-> cal, protein |-> pro, carbs |-> carb, fat |-> fat]

NoData == NutritionData(0, 0, 0, 0, None, None, None)

NoData4 == NutritionData4(0, 0, 0, 0)

NdReturned(nd) == [kind |-> "return", exc |-> "", nd |-> nd]

NdRaised(exc) == [kind |-> "raise", exc |-> exc, nd |-> NoData]

NdPending == [kind |-> "pending", exc |-> "", nd |-> NoData]

Nd4Returned(nd) == [kind |-> "return", exc |-> "", nd |-> nd]

Nd4Raised(exc) == [kind |-> "raise", exc |-> exc, nd |-> NoData4]

Nd4Pending == [kind |-> "pending", exc |-> "", nd |-> NoData4]

\* float(data[key]): what a strict lookup would do, a KeyError for a missing key
RequiredFieldStrict(data, key) ==
    IF HasKey(data, key) THEN PyFloat(Lookup(data, key)) ELSE FErr("KeyError")

\* float(data.get(key, 0))
RequiredField(data, key) == PyFloat(DictGet(data, key, NumV(0)))

\* float(data[key]) if data.get(key) is not None else None: what a test for
\* None in place of the test for truth would do
OptionalFieldNotNone(data, key) ==
    IF DictGet(data, key, NullV).t # "null"
    THEN LET r == PyFloat(Lookup(data, key))
         IN  [st |-> r.st, exc |-> r.exc, n |-> r.n, some |-> TRUE]
    ELSE [st |-> "ok", exc |-> "", n |-> 0, some |-> FALSE]

\* float(data[key]) if data.get(key) else None
OptionalField(data, key) ==
    IF Truthy(DictGet(data, key, NullV))
    THEN LET r == PyFloat(Lookup(data, key))
         IN  [st |-> r.st, exc |-> r.exc, n |-> r.n, some |-> TRUE]
    ELSE [st |-> "ok", exc |-> "", n |-> 0, some |-> FALSE]

\* the first exception among the fields' conversions, in argument order
FirstError(rs) == rs[Min({ i \in DOMAIN rs : rs[i].st = "raise" })].exc

AnyError(rs) == \E i \in DOMAIN rs : rs[i].st = "raise"

OptOf(r) == IF r.some THEN Some(r.n) ELSE None

\* the seven-field variant; data.get on a value that is no dict is an
\* AttributeError
create_nutrition_data_from_dict(data) ==
    IF data.t # "obj" THEN NdRaised("AttributeError")
    ELSE LET req == [i \in 1..4 |-> RequiredField(data, RequiredKeys[i])]
             opt == [i \in 1..3 |-> OptionalField(data, OptionalKeys[i])]
         IN  IF AnyError(req) THEN NdRaised(FirstError(req))
             ELSE IF AnyError(opt) THEN NdRaised(FirstError(opt))
             ELSE NdReturned(NutritionData(req[1].n, req[2].n, req[3].n, req[4].n,
                                           OptOf(opt[1]), OptOf(opt[2]), OptOf(opt[3])))

\* the four-field variant
create_nutrition_data_from_dict4(data) ==
    IF data.t # "obj" THEN Nd4Raised("AttributeError")
    ELSE LET req == [i \in 1..4 |-> RequiredField(data, RequiredKeys[i])]
         IN  IF AnyError(req) THEN Nd4Raised(FirstError(req))
             ELSE Nd4Returned(NutritionData4(req[1].n, req[2].n, req[3].n, req[4].n))

-----------------------------------------------------------------------------
(* The reply texts the extractor is run on *)

\* the longest free text, in chunks
MaxFree == 3

FreeChunks ==
    { Fence, <<"{">>, <<"}">>, <<"\"">>, <<"a">>, <<":">>, <<"1">>, <<" ">>,
      <<"[">>, <<"]">>, <<"n", "u", "l", "l">>, <<LongDigits>> }

FreeTexts ==
    { Flatten(cs) : cs \in UNION { [1..n -> FreeChunks] : n \in 0..MaxFree } }

\* JSON objects: flat, nested, and with strings that hold braces and fences
Objects ==
    { ObjV(<<>>),
      ObjV(<<KV(<<"a">>, NumV(10))>>),
      ObjV(<<KV(<<"a">>, NumV(10)), KV(<<"b">>, StrV(<<"x">>))>>),
      ObjV(<<KV(<<"a">>, ObjV(<<KV(<<"b">>, NumV(10))>>))>>),
      ObjV(<<KV(<<"a">>, StrV(<<"}">>))>>),
      ObjV(<<KV(<<"a">>, StrV(Fence))>>),
      ObjV(<<KV(<<"a">>, StrV(<<"}">> \o Fence))>>),
      ObjV(<<KV(<<"a">>, StrV(Fence \o <<"{", "b", "}">> \o Fence))>>) }

\* commentary around the JSON: none, words, words with a brace
Commentary == { <<>>, <<"a", ":", "\n">>, <<" ", "a", "}">> }

Tags == { <<>>, JsonTag }

\* the serialization of o in a fenced code block, commentary around it
Wrapped(pre, tag, o, post) ==
    pre \o Fence \o tag \o <<"\n">> \o Serialize(o) \o <<"\n">> \o Fence \o post

\* the serialization of o in prose
Raw(pre, o, post) == pre \o Serialize(o) \o post

WrappedTexts ==
    { Wrapped(pre, tag, o, post) :
        pre \in Commentary, tag \in Tags, o \in Objects, post \in Commentary }

RawTexts ==
    { Raw(pre, o, post) : pre \in Commentary, o \in Objects, post \in Commentary }

Texts == FreeTexts \cup WrappedTexts \cup RawTexts

-----------------------------------------------------------------------------
(* The extractor as a state machine: one call of                           *)
(* extract_json_from_response on one text                                  *)

ExtractStart ==
    /\ text \in Texts
    /\ ex_pc = "start"
    /\ json_str = <<>>
    /\ attempt = 0
    /\ ex_ret = Pending

ExtractIdle ==
    /\ text = <<>>
    /\ ex_pc = "idle"
    /\ json_str = <<>>
    /\ attempt = 0
    /\ ex_ret = Pending

\* lines 76-88
ExtractSelect ==
    /\ ex_pc = "start"
    /\ json_str' = SelectSpan(text).span
    /\ attempt' = SelectSpan(text).attempt
    /\ ex_pc' = "selected"
    /\ UNCHANGED <<text, ex_ret, nd_vars, ag_vars, pp_vars, h_vars, dt_vars, da_vars, bt_vars>>

\* lines 90-93
ExtractLoad ==
    /\ ex_pc = "selected"
    /\ ex_ret' = LoadSpan(json_str)
    /\ ex_pc' = "done"
    /\ UNCHANGED <<text, json_str, attempt, nd_vars, ag_vars, pp_vars, h_vars, dt_vars, da_vars, bt_vars>>

ExtractNext == ExtractSelect \/ ExtractLoad

-----------------------------------------------------------------------------
(* The dicts the normalizer is run on: a base dict with at most MaxEdits   *)
(* of its keys set to another value or deleted, and values that are no     *)
(* dict                                                                    *)

MaxEdits == 2

NutritionKeys == RequiredKeys \o OptionalKeys

\* the values a key of the reply can hold
FieldValues ==
    { NumV(0), NumV(36), NumV(-20), NullV, BoolV(TRUE),
      StrV(<<"1", "2">>), StrV(<<"0">>), StrV(<<"a">>), StrV(<<>>),
      ArrV(<<NumV(10)>>), ObjV(<<>>) }

\* a key's fate under an edit: deleted, or set to a value
Cells == { [present |-> FALSE, v |-> NullV] }
         \cup { [present |-> TRUE, v |-> x] : x \in FieldValues }

BaseDicts ==
    { ObjV(<<>>),
      ObjV(<<KV(K_calories, NumV(1650)), KV(K_protein, NumV(310)),
             KV(K_carbs, NumV(0)), KV(K_fat, NumV(36))>>),
      ObjV(<<KV(K_calories, NumV(2500)), KV(K_protein, NumV(105)),
             KV(K_carbs, NumV(300)), KV(K_fat, NumV(5)),
             KV(K_fiber, NumV(20)), KV(K_sugar, NumV(15)), KV(K_sodium, NumV(4000))>>) }

\* the keys an edit touches: at most MaxEdits of the seven
EditedKeys == { x \in SUBSET (1..7) : Cardinality(x) <= MaxEdits }

\* the edits of the keys ks
Edits(ks) == [ks -> Cells]

RECURSIVE DictFromCells(_, _)
\* the dict holding, in key order, the keys whose cell is present
DictFromCells(cells, i) ==
    IF i > 7 THEN <<>>
    ELSE (IF cells[i].present THEN <<KV(NutritionKeys[i], cells[i].v)>> ELSE <<>>)
         \o DictFromCells(cells, i + 1)

ApplyEdits(base, e) ==
    ObjV(DictFromCells(
        [i \in 1..7 |->
            IF i \in DOMAIN e THEN e[i]
            ELSE IF HasKey(base, NutritionKeys[i])
                 THEN [present |-> TRUE, v |-> Lookup(base, NutritionKeys[i])]
                 ELSE [present |-> FALSE, v |-> NullV]], 1))

\* values that are no dict
NoDicts == { NullV, NumV(10), StrV(<<"a">>), ArrV(<<>>) }

NormStart ==
    /\ nd_again = NdPending
    /\ nd4_again = Nd4Pending
    /\ \/ \E base \in BaseDicts : \E ks \in EditedKeys : \E e \in Edits(ks) :
             nd_data = ApplyEdits(base, e)
       \/ nd_data \in NoDicts
    /\ nd_pc = "start"
    /\ nd_ret = NdPending
    /\ nd4_ret = Nd4Pending

NormIdle ==
    /\ nd_again = NdPending
    /\ nd4_again = Nd4Pending
    /\ nd_data = NullV
    /\ nd_pc = "idle"
    /\ nd_ret = NdPending
    /\ nd4_ret = Nd4Pending

\* one call of each variant on the same value
Normalize ==
    /\ nd_pc = "start"
    /\ nd_ret' = create_nutrition_data_from_dict(nd_data)
    /\ nd4_ret' = create_nutrition_data_from_dict4(nd_data)
    /\ nd_pc' = "done"
    /\ UNCHANGED <<nd_data, nd_again, nd4_again, ex_vars, ag_vars, pp_vars, h_vars, dt_vars, da_vars, bt_vars>>

\* the dict of the fields of a NutritionData, an absent field as None
asdict(nd) ==
    ObjV(<<KV(K_calories, NumV(nd.calories)), KV(K_protein, NumV(nd.protein)),
           KV(K_carbs, NumV(nd.carbs)), KV(K_fat, NumV(nd.fat)),
           KV(K_fiber, IF nd.fiber.some THEN NumV(nd.fiber.v) ELSE NullV),
           KV(K_sugar, IF nd.sugar.some THEN NumV(nd.sugar.v) ELSE NullV),
           KV(K_sodium, IF nd.sodium.some THEN NumV(nd.sodium.v) ELSE NullV)>>)

asdict4(nd) ==
    ObjV(<<KV(K_calories, NumV(nd.calories)), KV(K_protein, NumV(nd.protein)),
           KV(K_carbs, NumV(nd.carbs)), KV(K_fat, NumV(nd.fat))>>)

\* each variant called again on the dict of what it returned
Renormalize ==
    /\ nd_pc = "done"
    /\ nd4_ret.kind = "return"
    /\ nd4_again' = create_nutrition_data_from_dict4(asdict4(nd4_ret.nd))
    /\ nd_again' = IF nd_ret.kind = "return"
                   THEN create_nutrition_data_from_dict(asdict(nd_ret.nd))
                   ELSE nd_again
    /\ nd_pc' = "again"
    /\ UNCHANGED <<nd_data, nd_ret, nd4_ret, ex_vars, ag_vars, pp_vars, h_vars, dt_vars, da_vars, bt_vars>>

-----------------------------------------------------------------------------
(* calculate_total_nutrition: utils.py lines 148-191.  The totals are      *)
(* floats; every number of this part is a multiple of 0.5, so the float    *)
(* sums are the exact sums.                                                *)

MaxComponents == 2

\* a FoodComponent, as far as the aggregator reads it: the resolved
\* nutrition (None until a lookup sets it), the estimate, and whether its
\* NutritionData class has the optional attributes (the seven-field
\* dataclass) or the macros only (the four-field one)
FoodComponentOf(nutrition, estimate, seven) ==
    [nutrition |-> nutrition, claude_estimate |-> estimate, seven |-> seven]

NoNutrition == [some |-> FALSE, nd |-> NoData]

SomeNutrition(nd) == [some |-> TRUE, nd |-> nd]

MacroVectors == { <<1650, 310, 0, 35>>, <<1005, 25, 300, 5>> }

\* fiber, sugar, sodium of a component: absent, positive or negative
OptionalTriples ==
    { <<None, None, None>>, <<Some(20), None, None>>, <<Some(-20), None, None>>,
      <<Some(5), Some(15), None>>, <<None, Some(15), Some(4000)>>,
      <<Some(20), None, Some(-4000)>>, <<None, None, Some(4000)>> }

NutritionPool ==
    { NutritionData(m[1], m[2], m[3], m[4], o[1], o[2], o[3]) :
        m \in MacroVectors, o \in OptionalTriples }

ComponentPool ==
    { FoodComponentOf(NoNutrition, nd, TRUE) : nd \in NutritionPool }
    \cup { FoodComponentOf(SomeNutrition(
               NutritionData(2000, 100, 100, 100, o[1], o[2], o[3])),
               NutritionData(1650, 310, 0, 35, None, Some(15), None), TRUE) :
           o \in OptionalTriples }
    \cup { FoodComponentOf(NoNutrition,
               NutritionData(1650, 310, 0, 35, None, None, None), FALSE) }

ComponentLists == UNION { [1..n -> ComponentPool] : n \in 0..MaxComponents }

\* component.nutrition or component.claude_estimate
EffectiveNutrition(c) == IF c.nutrition.some THEN c.nutrition.nd ELSE c.claude_estimate

\* lines 158-166
ZeroTotals == NutritionData(0, 0, 0, 0, Some(0), Some(0), Some(0))

\* if nutrition.f: totals[f] += nutrition.f
AddOptional(total, x) ==
    IF x.some /\ x.v # 0 THEN Some(total.v + x.v) ELSE total

\* lines 171-181 for one component
AddComponent(totals, nutrition) ==
    NutritionData(totals.calories + nutrition.calories,
                  totals.protein + nutrition.protein,
                  totals.carbs + nutrition.carbs,
                  totals.fat + nutrition.fat,
                  AddOptional(totals.fiber, nutrition.fiber),
                  AddOptional(totals.sugar, nutrition.sugar),
                  AddOptional(totals.sodium, nutrition.sodium))

\* if totals[f] == 0: totals[f] = None
CleanZero(total) == IF total.v = 0 THEN None ELSE total

\* lines 183-189
CleanTotals(totals) ==
    [totals EXCEPT !.fiber = CleanZero(@), !.sugar = CleanZero(@),
                   !.sodium = CleanZero(@)]

AggStart ==
    /\ ag_components \in ComponentLists
    /\ ag_pc = "loop"
    /\ ag_i = 0
    /\ ag_totals = ZeroTotals
    /\ ag_ret = "pending"

AggIdle ==
    /\ ag_components = <<>>
    /\ ag_pc = "idle"
    /\ ag_i = 0
    /\ ag_totals = ZeroTotals
    /\ ag_ret = "pending"

\* one turn of the loop, lines 168-181: the macros are added, then the
\* optional attributes are read, which a four-field NutritionData lacks
AggAdd ==
    /\ ag_pc = "loop"
    /\ ag_i < Len(ag_components)
    /\ ag_i' = ag_i + 1
    /\ LET c == ag_components[ag_i + 1]
           added == AddComponent(ag_totals, EffectiveNutrition(c))
       IN  IF c.seven
           THEN /\ ag_totals' = added
                /\ UNCHANGED <<ag_pc, ag_ret>>
           ELSE /\ ag_totals' = [added EXCEPT !.fiber = ag_totals.fiber,
                                              !.sugar = ag_totals.sugar,
                                              !.sodium = ag_totals.sodium]
                /\ ag_pc' = "done"
                /\ ag_ret' = "AttributeError"
    /\ UNCHANGED <<ag_components, ex_vars, nd_vars, pp_vars, h_vars, dt_vars, da_vars, bt_vars>>

\* lines 183-191: zeros of the optional fields become None
AggCleanup ==
    /\ ag_pc = "loop"
    /\ ag_i = Len(ag_components)
    /\ ag_totals' = CleanTotals(ag_totals)
    /\ ag_pc' = "done"
    /\ ag_ret' = "return"
    /\ UNCHANGED <<ag_components, ag_i, ex_vars, nd_vars, pp_vars, h_vars, dt_vars, da_vars, bt_vars>>

-----------------------------------------------------------------------------
(* _clean_component_name: claude_vision_service.py lines 157-175 *)

Lowercase ==
    <<"a", "b", "c", "d", "e", "f", "g", "h", "i", "j", "k", "l", "m",
      "n", "o", "p", "q", "r", "s", "t", "u", "v", "w", "x", "y", "z">>

Uppercase ==
    <<"A", "B", "C", "D", "E", "F", "G", "H", "I", "J", "K", "L", "M",
      "N", "O", "P", "Q", "R", "S", "T", "U", "V", "W", "X", "Y", "Z">>

Upper(c) ==
    IF \E i \in 1..26 : Lowercase[i] = c
    THEN Uppercase[CHOOSE i \in 1..26 : Lowercase[i] = c] ELSE c

Lower(c) ==
    IF \E i \in 1..26 : Uppercase[i] = c
    THEN Lowercase[CHOOSE i \in 1..26 : Uppercase[i] = c] ELSE c

Brackets == {"(", "[", "{", ")", "]", "}"}

RECURSIVE Without(_, _)
\* re.sub of a character class by the empty string
Without(s, cs) ==
    IF s = <<>> THEN <<>>
    ELSE (IF Head(s) \in cs THEN <<>> ELSE <<Head(s)>>) \o Without(Tail(s), cs)

RECURSIVE JoinSplit(_, _)
\* ' '.join(name.split()): the words of s, one space between them; pending
\* says that a word has been written and whitespace seen after it
JoinSplit(s, pending) ==
    IF s = <<>> THEN <<>>
    ELSE IF Head(s) \in ReWS THEN JoinSplit(Tail(s), pending)
    ELSE (IF pending THEN <<" ">> ELSE <<>>) \o <<Head(s)>>
         \o (IF Len(s) > 1 /\ s[2] \in ReWS
             THEN JoinSplit(Tail(s), TRUE)
             ELSE JoinSplit(Tail(s), FALSE))

\* str.capitalize(): the first character upper case, the others lower case
Capitalize(s) ==
    [i \in DOMAIN s |-> IF i = 1 THEN Upper(s[i]) ELSE Lower(s[i])]

\* the name with its first character in upper case and nothing else done
capitalize_only(name) == Capitalize(name)

clean_component_name(name) == Capitalize(JoinSplit(Without(name, Brackets), FALSE))

-----------------------------------------------------------------------------
(* round(): claude_vision_service.py lines 215-218.  The product of two    *)
(* floats, given here in hundredths, rounded to an integer.  Off a tie the *)
(* float product rounds as the exact one does.  On a tie round() goes to   *)
(* the even neighbour when the float product is exact, which it is when    *)
(* both factors are multiples of 0.5; when it is not, the float product    *)
(* lies a little to one side of the tie and either neighbour can come out. *)

HalfExact(tenths) == tenths % 5 = 0

\* round(rate * quantity), truncating: what int() in place of round() gives
RoundChoicesTrunc(rate, quantity) ==
    LET p == rate * quantity
    IN  { IF p >= 0 THEN p \div (Scale * Scale)
          ELSE 0 - ((0 - p) \div (Scale * Scale)) }

\* the integers round(rate * quantity) can return
RoundChoices(rate, quantity) ==
    LET p == rate * quantity
        unit == Scale * Scale
        lo == p \div unit
        rem == p % unit
    IN  IF 2 * rem < unit THEN {lo}
        ELSE IF 2 * rem > unit THEN {lo + 1}
        ELSE IF HalfExact(rate) /\ HalfExact(quantity)
        THEN {IF lo % 2 = 0 THEN lo ELSE lo + 1}
        ELSE {lo, lo + 1}

-----------------------------------------------------------------------------
(* _parse_claude_response, the per-unit variant:                           *)
(* food-analysis-lambda/service/claude_vision_service.py lines 177-260     *)

K_components == <<"c", "o", "m", "p", "o", "n", "e", "n", "t", "s">>

K_dishName == <<"d", "i", "s", "h", "N", "a", "m", "e">>

K_itemType == <<"i", "t", "e", "m", "T", "y", "p", "e">>

K_name == <<"n", "a", "m", "e">>

K_quantity == <<"q", "u", "a", "n", "t", "i", "t", "y">>

K_unit == <<"u", "n", "i", "t">>

K_caloriesPerUnit == K_calories \o <<"P", "e", "r", "U", "n", "i", "t">>

K_proteinPerUnit == K_protein \o <<"P", "e", "r", "U", "n", "i", "t">>

K_carbsPerUnit == K_carbs \o <<"P", "e", "r", "U", "n", "i", "t">>

K_fatPerUnit == K_fat \o <<"P", "e", "r", "U", "n", "i", "t">>

PerUnitKeys == <<K_caloriesPerUnit, K_proteinPerUnit, K_carbsPerUnit, K_fatPerUnit>>

\* the values of the ItemType enum: models.py lines 15-19
BRANDED_PRODUCT ==
    <<"b", "r", "a", "n", "d", "e", "d", "_", "p", "r", "o", "d", "u", "c", "t">>

MEAL == <<"m", "e", "a", "l">>

MEAL_COMPONENT == MEAL \o <<"_", "c", "o", "m", "p", "o", "n", "e", "n", "t">>

ItemTypes == {BRANDED_PRODUCT, MEAL, MEAL_COMPONENT}

\* obj[key] of any value: a KeyError for a dict without the key, a
\* TypeError for a value that a string cannot index
Subscript(obj, key) ==
    IF obj.t # "obj" THEN [st |-> "raise", exc |-> "TypeError", v |-> NullV]
    ELSE IF ~HasKey(obj, key) THEN [st |-> "raise", exc |-> "KeyError", v |-> NullV]
    ELSE [st |-> "ok", exc |-> "", v |-> Lookup(obj, key)]

\* float(obj[key])
FloatAt(obj, key) ==
    LET x == Subscript(obj, key)
    IN  IF x.st = "raise" THEN FErr(x.exc) ELSE PyFloat(x.v)

\* _clean_component_name(obj['name']): re.sub refuses what is no string
NameAt(obj) ==
    LET x == Subscript(obj, K_name)
    IN  IF x.st = "raise" THEN [st |-> "raise", exc |-> x.exc, s |-> <<>>]
        ELSE IF x.v.t # "str" THEN [st |-> "raise", exc |-> "TypeError", s |-> <<>>]
        ELSE [st |-> "ok", exc |-> "", s |-> clean_component_name(x.v.s)]

FoodComponent(name, quantity, unit, rate, estimate) ==
    [name |-> name, item_type |-> MEAL_COMPONENT, quantity |-> quantity,
     unit |-> unit, per_unit_nutrition |-> rate, claude_estimate |-> estimate,
     brand |-> NullV, barcode |-> NullV]

NoComponent == FoodComponent(<<>>, 0, NullV, NoData4, NoData4)

CompRaised(exc) == [st |-> "raise", exc |-> exc, comp |-> NoComponent]

\* lines 201-237 for one comp_data: the exception of the first statement
\* that raises, or the components the statements can build
ComponentOutcomes(comp_data) ==
    LET quantity == FloatAt(comp_data, K_quantity)
        name == NameAt(comp_data)
        rates == [i \in 1..4 |-> FloatAt(comp_data, PerUnitKeys[i])]
        unit == Subscript(comp_data, K_unit)
    IN  IF quantity.st = "raise" THEN {CompRaised(quantity.exc)}
        ELSE IF name.st = "raise" THEN {CompRaised(name.exc)}
        ELSE IF AnyError(rates) THEN {CompRaised(FirstError(rates))}
        ELSE IF unit.st = "raise" THEN {CompRaised(unit.exc)}
        ELSE { [st |-> "ok", exc |-> "",
                comp |-> FoodComponent(name.s, quantity.n, unit.v,
                            NutritionData4(rates[1].n, rates[2].n, rates[3].n, rates[4].n),
                            NutritionData4(cal * Scale, pro * Scale,
                                           carb * Scale, fat * Scale))] :
                 cal \in RoundChoices(rates[1].n, quantity.n),
                 pro \in RoundChoices(rates[2].n, quantity.n),
                 carb \in RoundChoices(rates[3].n, quantity.n),
                 fat \in RoundChoices(rates[4].n, quantity.n) }

\* what iterating response_json.get('components', []) yields: the elements
\* of a list, the characters of a string, the keys of a dict; a number, a
\* bool or None cannot be iterated, and a value that is no dict has no get
ComponentItems(json) ==
    IF json.t # "obj" THEN [st |-> "raise", exc |-> "AttributeError", items |-> <<>>]
    ELSE LET cs == DictGet(json, K_components, ArrV(<<>>))
         IN  CASE cs.t = "arr" -> [st |-> "ok", exc |-> "", items |-> cs.items]
               [] cs.t = "str" ->
                    [st |-> "ok", exc |-> "",
                     items |-> [i \in DOMAIN cs.s |-> StrV(<<cs.s[i]>>)]]
               [] cs.t = "obj" ->
                    [st |-> "ok", exc |-> "",
                     items |-> [i \in DOMAIN cs.kv |-> StrV(cs.kv[i].k)]]
               [] OTHER -> [st |-> "raise", exc |-> "TypeError", items |-> <<>>]

\* str(e) of a KeyError: the key in quotes
Quoted(key) == <<"'">> \o key \o <<"'">>

\* the interpreter's message for a failed float(), subscript, iteration or
\* attribute access; it holds the value or its type, never a key
InterpreterMessage == <<"<", "m", "e", "s", "s", "a", "g", "e", ">">>

\* repr() of a JSON value, as far as item types go: strings in quotes,
\* None, True and False, numbers as json.dumps writes them
PyRepr(v) ==
    CASE v.t = "str" -> Quoted(v.s)
      [] v.t = "null" -> <<"N", "o", "n", "e">>
      [] v.t = "bool" -> IF v.n = 1 THEN <<"T", "r", "u", "e">>
                         ELSE <<"F", "a", "l", "s", "e">>
      [] OTHER -> Serialize(v)

\* the message of the ValueError of ItemType(v)
NotValidItemType(v) == PyRepr(v) \o <<" ", "i", "s", " ", "n", "o", "t", " ", "a", " ", "v", "a", "l", "i", "d", " ", "I", "t", "e", "m", "T", "y", "p", "e">>

\* an ItemType() that takes meal_component for a value it does not know
ItemTypeAtDefault(json) ==
    LET x == Subscript(json, K_itemType)
    IN  IF x.st = "ok" /\ x.v.t = "str" /\ x.v.s \in ItemTypes
        THEN [st |-> "ok", exc |-> "", s |-> x.v.s, msg |-> <<>>]
        ELSE [st |-> "ok", exc |-> "", s |-> MEAL_COMPONENT, msg |-> <<>>]

\* ItemType(response_json['itemType'])
ItemTypeAt(json) ==
    LET x == Subscript(json, K_itemType)
    IN  IF x.st = "raise"
        THEN [st |-> "raise", exc |-> x.exc, s |-> <<>>,
              msg |-> IF x.exc = "KeyError" THEN Quoted(K_itemType)
                      ELSE InterpreterMessage]
        ELSE IF x.v.t = "str" /\ x.v.s \in ItemTypes
        THEN [st |-> "ok", exc |-> "", s |-> x.v.s, msg |-> <<>>]
        ELSE [st |-> "raise", exc |-> "ValueError", s |-> <<>>,
              msg |-> NotValidItemType(x.v)]

\* the keys of a component in the order lines 201-232 read them
ComponentKeys == <<K_quantity, K_name>> \o PerUnitKeys \o <<K_unit>>

\* str(e) of what a component raised: a KeyError is raised for the first
\* key in reading order that the component lacks
ComponentMessage(comp_data, exc) ==
    IF exc = "KeyError"
    THEN Quoted(ComponentKeys[Min({ i \in 1..7 : ~HasKey(comp_data, ComponentKeys[i]) })])
    ELSE InterpreterMessage

ClaudeAnalysisResult(dish_name, item_type, components, total, raw) ==
    [dish_name |-> dish_name, item_type |-> item_type, components |-> components,
     total_claude_estimate |-> total, raw_response |-> raw]

NoResult == ClaudeAnalysisResult(NullV, <<>>, <<>>, NoData4, <<>>)

\* the totals if the loop assigned the last component's numbers to them
\* in place of adding
AssignTotals(totals, estimate) ==
    NutritionData4(estimate.calories, estimate.protein, estimate.carbs, estimate.fat)

\* the sum the loop keeps, lines 241-244
AddTotals(totals, estimate) ==
    NutritionData4(totals.calories + estimate.calories,
                   totals.protein + estimate.protein,
                   totals.carbs + estimate.carbs,
                   totals.fat + estimate.fat)

\* a get_api_response that emits the components last to first
get_api_response_reversed(result) ==
    [dishName |-> result.dish_name,
     itemType |-> result.item_type,
     components |->
        [i \in DOMAIN result.components |->
            LET c == result.components[Len(result.components) + 1 - i]
            IN  [name |-> c.name,
                 quantity |-> c.quantity,
                 unit |-> c.unit,
                 perUnitNutrition |-> c.per_unit_nutrition,
                 nutrition |-> c.claude_estimate]],
     totalNutrition |-> result.total_claude_estimate]

\* get_api_response: lines 262-302
get_api_response(result) ==
    [dishName |-> result.dish_name,
     itemType |-> result.item_type,
     components |->
        [i \in DOMAIN result.components |->
            [name |-> result.components[i].name,
             quantity |-> result.components[i].quantity,
             unit |-> result.components[i].unit,
             perUnitNutrition |-> result.components[i].per_unit_nutrition,
             nutrition |-> result.components[i].claude_estimate]],
     totalNutrition |-> result.total_claude_estimate]

NoApiResponse == get_api_response(NoResult)

ParseIdle ==
    /\ pp_pc = "idle"
    /\ response_json = NullV
    /\ pp_items = <<>>
    /\ pp_i = 0
    /\ pp_components = <<>>
    /\ pp_totals = NoData4
    /\ pp_ret = "pending"
    /\ pp_msg = <<>>
    /\ pp_result = NoResult
    /\ api_response = NoApiResponse

\* lines 194-200: the totals start at zero and the loop starts
ParseBegin ==
    /\ pp_pc = "begin"
    /\ LET it == ComponentItems(response_json)
       IN  IF it.st = "raise"
           THEN /\ pp_pc' = "done"
                /\ pp_ret' = it.exc
                /\ pp_msg' = InterpreterMessage
                /\ UNCHANGED pp_items
           ELSE /\ pp_pc' = "loop"
                /\ pp_items' = it.items
                /\ UNCHANGED <<pp_ret, pp_msg>>
    /\ UNCHANGED <<response_json, pp_i, pp_components, pp_totals, pp_result,
                   api_response, ex_vars, nd_vars, ag_vars, h_vars, dt_vars, da_vars, bt_vars>>

\* one turn of the loop, lines 200-244
ParseComponent ==
    /\ pp_pc = "loop"
    /\ pp_i < Len(pp_items)
    /\ \E out \in ComponentOutcomes(pp_items[pp_i + 1]) :
          IF out.st = "raise"
          THEN /\ pp_pc' = "done"
               /\ pp_ret' = out.exc
               /\ pp_msg' = ComponentMessage(pp_items[pp_i + 1], out.exc)
               /\ UNCHANGED <<pp_i, pp_components, pp_totals>>
          ELSE /\ pp_components' = Append(pp_components, out.comp)
               /\ pp_totals' = AddTotals(pp_totals, out.comp.claude_estimate)
               /\ pp_i' = pp_i + 1
               /\ UNCHANGED <<pp_pc, pp_ret, pp_msg>>
    /\ UNCHANGED <<response_json, pp_items, pp_result, api_response,
                   ex_vars, nd_vars, ag_vars, h_vars, dt_vars, da_vars, bt_vars>>

\* lines 246-260: the total and the result
ParseAssemble ==
    /\ pp_pc = "loop"
    /\ pp_i = Len(pp_items)
    /\ LET dish == Subscript(response_json, K_dishName)
           kind == ItemTypeAt(response_json)
       IN  IF dish.st = "raise" \/ kind.st = "raise"
           THEN /\ pp_pc' = "done"
                /\ pp_ret' = IF dish.st = "raise" THEN dish.exc ELSE kind.exc
                /\ pp_msg' = IF dish.st = "raise" THEN Quoted(K_dishName) ELSE kind.msg
                /\ UNCHANGED pp_result
           ELSE /\ pp_pc' = "respond"
                /\ pp_ret' = "return"
                /\ UNCHANGED pp_msg
                /\ pp_result' = ClaudeAnalysisResult(dish.v, kind.s, pp_components,
                                                     pp_totals, text)
    /\ UNCHANGED <<response_json, pp_items, pp_i, pp_components, pp_totals,
                   api_response, ex_vars, nd_vars, ag_vars, h_vars, dt_vars, da_vars, bt_vars>>

\* get_api_response on the result
ApiResponse ==
    /\ pp_pc = "respond"
    /\ api_response' = get_api_response(pp_result)
    /\ pp_pc' = "done"
    /\ UNCHANGED <<response_json, pp_items, pp_i, pp_components, pp_totals,
                   pp_ret, pp_msg, pp_result, ex_vars, nd_vars, ag_vars, h_vars, dt_vars, da_vars, bt_vars>>

-----------------------------------------------------------------------------
(* The replies _parse_claude_response is run on *)

MaxComps == 2

\* one component as the prompt asks for it; the arguments are JSON values
CompData(name, quantity, unit, rates) ==
    ObjV(<<KV(K_name, name), KV(K_quantity, quantity), KV(K_unit, unit),
           KV(K_caloriesPerUnit, rates[1]), KV(K_proteinPerUnit, rates[2]),
           KV(K_carbsPerUnit, rates[3]), KV(K_fatPerUnit, rates[4])>>)

\* a dict without one of its keys
Dropped(obj, key) ==
    ObjV(SelectSeq(obj.kv, LAMBDA m : m.k # key))

Grams == StrV(<<"g">>)

Pieces == StrV(<<"p", "i", "e", "c", "e", "s">>)

\* rates per unit, in tenths: 165 kcal, 31 protein, 0 carbs, 3.6 fat
ChickenRates == <<NumV(1650), NumV(310), NumV(0), NumV(36)>>

OnionRates == <<NumV(5), NumV(25), NumV(15), NumV(3)>>

TortillaRates == <<NumV(7), NumV(13), StrV(<<"0", ".", "2">>), NumV(9)>>

Foods ==
    { [name |-> StrV(<<"c", "h", "i", "c", "k", "e", "n", " ", "b", "r", "e", "a", "s", "t">>), unit |-> Grams, rates |-> ChickenRates],
      [name |-> StrV(<<" ", " ", "w", "h", "i", "t", "e", " ", "O", "N", "I", "O", "N", " ", "(", "d", "i", "c", "e", "d", ")", " ", " ">>), unit |-> Pieces, rates |-> OnionRates],
      [name |-> StrV(<<"[", "c", "o", "r", "n", "]", " ", " ", "t", "o", "r", "t",
                       "i", "l", "l", "a", "\t">>),
       unit |-> Pieces, rates |-> TortillaRates] }

Quantities == {NumV(1500), NumV(10), NumV(25)}

ValidComps ==
    { CompData(f.name, q, f.unit, f.rates) : f \in Foods, q \in Quantities }
    \cup { CompData(StrV(<<"S", "h", "r", "e", "d", "d", "e", "d", " ", "b", "e", "e", "f", " ", "(", "b", "i", "r", "r", "i", "a", ")">>), StrV(<<"2">>), Pieces, OnionRates),
           CompData(StrV(<<" ", " ", "w", "h", "i", "t", "e", " ", "O", "N", "I", "O", "N", " ", "(", "d", "i", "c", "e", "d", ")", " ", " ">>), NumV(-10), Pieces, OnionRates),
           CompData(StrV(<<"c", "h", "i", "c", "k", "e", "n", " ", "b", "r", "e", "a", "s", "t">>), NumV(10), StrV(<<"o", "z">>), ChickenRates),
           CompData(StrV(<<"c", "h", "i", "c", "k", "e", "n", " ", "b", "r", "e", "a", "s", "t">>), NumV(0), StrV(<<>>), ChickenRates) }

Chicken == CompData(StrV(<<"c", "h", "i", "c", "k", "e", "n", " ", "b", "r", "e", "a", "s", "t">>), NumV(1500), Grams, ChickenRates)

InvalidComps ==
    { Dropped(Chicken, K_quantity),
      Dropped(Chicken, K_unit),
      Dropped(Chicken, K_fatPerUnit),
      CompData(StrV(<<"c", "h", "i", "c", "k", "e", "n", " ", "b", "r", "e", "a", "s", "t">>), NullV, Grams, ChickenRates),
      CompData(StrV(<<"c", "h", "i", "c", "k", "e", "n", " ", "b", "r", "e", "a", "s", "t">>), StrV(<<"a">>), Grams, ChickenRates),
      CompData(NumV(10), NumV(10), Grams, ChickenRates),
      StrV(<<"c", "h", "i", "c", "k", "e", "n", " ", "b", "r", "e", "a", "s", "t">>) }

CompPool == ValidComps \cup InvalidComps

CompLists == UNION { [1..n -> CompPool] : n \in 0..MaxComps }

Response(dish, kind, comps) ==
    ObjV(<<KV(K_dishName, dish), KV(K_itemType, kind), KV(K_components, comps)>>)

Bowl == StrV(<<"b", "o", "w", "l">>)

\* dish name and item type as the reply gives them
Headers ==
    { <<Bowl, StrV(MEAL)>>, <<NullV, StrV(BRANDED_PRODUCT)>>,
      <<Bowl, StrV(<<"s", "n", "a", "c", "k">>)>>, <<Bowl, NullV>> }

Responses ==
    { Response(h[1], h[2], ArrV(cs)) : h \in Headers, cs \in CompLists }
    \cup { Dropped(Response(Bowl, StrV(MEAL), ArrV(<<Chicken>>)), k) :
             k \in {K_dishName, K_itemType, K_components} }
    \cup { Response(Bowl, StrV(MEAL), cs) :
             cs \in {NullV, NumV(10), StrV(<<"a">>), StrV(<<>>), ObjV(<<>>),
                     ObjV(<<KV(K_name, Bowl)>>)} }
    \cup { ArrV(<<Chicken>>), NumV(10), StrV(<<"b", "o", "w", "l">>), BoolV(TRUE) }

ParseStart ==
    /\ pp_pc = "begin"
    /\ response_json \in Responses
    /\ pp_items = <<>>
    /\ pp_i = 0
    /\ pp_components = <<>>
    /\ pp_totals = NoData4
    /\ pp_ret = "pending"
    /\ pp_msg = <<>>
    /\ pp_result = NoResult
    /\ api_response = NoApiResponse

-----------------------------------------------------------------------------
(* validate_base64_image, get_image_media_type, clean_base64_image:        *)
(* utils.py lines 10-63 *)

Base64Alphabet == Range(Lowercase) \cup Range(Uppercase) \cup Digits \cup {"+", "/"}

StartsWith(s, prefix) ==
    Len(s) >= Len(prefix) /\ SubSeq(s, 1, Len(prefix)) = prefix

DataImage == <<"d", "a", "t", "a", ":", "i", "m", "a", "g", "e">>

DataColon == <<"d", "a", "t", "a", ":">>

ImageJpeg == <<"i", "m", "a", "g", "e", "/", "j", "p", "e", "g">>

\* the positions of the character c in s
Places(s, c) == { i \in DOMAIN s : s[i] = c }

\* s.split(c)[0]
BeforeFirst(s, c) ==
    IF Places(s, c) = {} THEN s ELSE SubSeq(s, 1, Min(Places(s, c)) - 1)

\* s.split(c)[1], for an s that holds c
SecondPart(s, c) ==
    LET first == Min(Places(s, c))
        later == { i \in Places(s, c) : i > first }
    IN  SubSeq(s, first + 1, IF later = {} THEN Len(s) ELSE Min(later) - 1)

RECURSIVE RemoveAll(_, _)
\* s.replace(pat, '')
RemoveAll(s, pat) ==
    IF s = <<>> THEN <<>>
    ELSE IF StartsWith(s, pat) THEN RemoveAll(SubSeq(s, Len(pat) + 1, Len(s)), pat)
    ELSE <<Head(s)>> \o RemoveAll(Tail(s), pat)

RECURSIVE B64Scan(_, _, _, _)
\* base64.b64decode without validation: characters outside the alphabet are
\* skipped, padding that completes a group of four ends the data, and data
\* that ends inside a group is an error
B64Scan(s, i, quad, pads) ==
    IF i > Len(s) THEN quad = 0
    ELSE IF s[i] = "="
    THEN IF quad >= 2
         THEN quad + pads + 1 >= 4 \/ B64Scan(s, i + 1, quad, pads + 1)
         ELSE B64Scan(s, i + 1, quad, pads)
    ELSE IF s[i] \in Base64Alphabet THEN B64Scan(s, i + 1, (quad + 1) % 4, 0)
    ELSE B64Scan(s, i + 1, quad, pads)

\* every exception inside is caught and gives False: startswith on what is
\* no string, split(',')[1] without a comma, the decoder's error
validate_base64_image(image) ==
    /\ image.t = "str"
    /\ IF StartsWith(image.s, DataImage)
       THEN Places(image.s, ",") # {} /\ B64Scan(SecondPart(image.s, ","), 1, 0, 0)
       ELSE B64Scan(image.s, 1, 0, 0)

get_image_media_type(s) ==
    IF StartsWith(s, DataImage) THEN RemoveAll(BeforeFirst(s, ";"), DataColon)
    ELSE ImageJpeg

clean_base64_image(s) ==
    IF StartsWith(s, DataImage) THEN SecondPart(s, ",") ELSE s

-----------------------------------------------------------------------------
(* lambda_handler: handler.py lines 15-88, and analyze_food:               *)
(* claude_vision_service.py lines 36-92 *)

K_textDescription == <<"t", "e", "x", "t", "D", "e", "s", "c", "r", "i", "p", "t", "i", "o", "n">>

K_imageBase64 == <<"i", "m", "a", "g", "e", "B", "a", "s", "e", "6", "4">>

\* an event's body: absent (None), a string, or a decoded value
NoBody == [kind |-> "none", s |-> <<>>, v |-> NullV]

StrBody(chars) == [kind |-> "str", s |-> chars, v |-> NullV]

ValBody(v) == [kind |-> "val", s |-> <<>>, v |-> v]

NoInputs == [text_description |-> NullV, image_base64 |-> NullV]

NoRequest ==
    [model |-> "", max_tokens |-> 0, media_type |-> <<>>, data |-> <<>>, prompt |-> <<>>]

NoResponse == [statusCode |-> 0, error |-> "", detail |-> <<>>, body |-> NoApiResponse]

\* json.dumps({"error": message}); detail is the part of the message that
\* quotes the reply
ErrorResponse(code, message, detail) ==
    [statusCode |-> code, error |-> message, detail |-> detail, body |-> NoApiResponse]

Success(api) == [statusCode |-> 200, error |-> "", detail |-> <<>>, body |-> api]

\* except clauses that put the exception's message in the 500 as well
ExceptWithMessage(exc, message, detail) ==
    IF exc = "ValueError" THEN ErrorResponse(400, message, detail)
    ELSE ErrorResponse(500, message, detail)

\* the except clauses, lines 74-88: a ValueError is a 400 with its message,
\* any other exception a 500 with a fixed message
\* lambda_handler as it would be without the except Exception clause: any
\* other exception leaves the handler and no response exists
ExceptValueErrorOnly(exc, message, detail) ==
    IF exc = "ValueError" THEN ErrorResponse(400, message, detail)
    ELSE NoResponse

Except(exc, message, detail) ==
    IF exc = "ValueError" THEN ErrorResponse(400, message, detail)
    ELSE ErrorResponse(500, "Internal server error", <<>>)

\* the message of a ValueError raised inside float(), int() or ItemType()
LibraryMessage == "str(e)"

\* response_text[:200]
First200(s) == SubSeq(s, 1, Min({200, Len(s)}))

\* f"Analyze: {text_description}", or the fixed prompt
PromptOf(td) ==
    IF ~Truthy(td) THEN <<"A", "n", "a", "l", "y", "z", "e", " ", "t", "h", "i", "s", " ", "f", "o", "o", "d", ".">>
    ELSE <<"A", "n", "a", "l", "y", "z", "e", ":", " ">>
         \o (IF td.t = "str" THEN td.s
             ELSE IF td.t = "nan" THEN <<"n", "a", "n">>
             ELSE Serialize(td))

HandlerIdle ==
    /\ h_pc = "idle"
    /\ event = NoBody
    /\ h_inputs = NoInputs
    /\ request = NoRequest
    /\ calls = 0
    /\ h_response = NoResponse

\* handler.py lines 27-54: the body is read and decoded, the two inputs are
\* taken from it, and one of them must be truthy
HandlerReceive ==
    /\ h_pc = "start"
    /\ \E decoded \in { IF event.kind = "str" THEN JsonLoads(event.s)
                         ELSE [st |-> "ok", v |-> event.v, j |-> 0] } :
       LET body == decoded.v
           td == DictGet(body, K_textDescription, NullV)
           img == DictGet(body, K_imageBase64, NullV)
           reply(r) == /\ h_response' = r
                       /\ h_pc' = "done"
                       /\ UNCHANGED h_inputs
       IN  IF event.kind = "none"
           THEN reply(ErrorResponse(400, "No request body", <<>>))
           ELSE IF decoded.st = "err"
           THEN reply(ErrorResponse(400, "Invalid JSON in request body", <<>>))
           ELSE IF decoded.st = "raise"
           THEN reply(Except("ValueError", LibraryMessage, <<>>))
           ELSE IF body.t # "obj"
           THEN reply(Except("AttributeError", "", <<>>))
           ELSE IF ~Truthy(td) /\ ~Truthy(img)
           THEN reply(ErrorResponse(400,
                    "Either textDescription or imageBase64 must be provided", <<>>))
           ELSE /\ h_inputs' = [text_description |-> td, image_base64 |-> img]
                /\ h_pc' = "analyze"
                /\ UNCHANGED h_response
    /\ UNCHANGED <<event, request, calls, ex_vars, nd_vars, ag_vars, pp_vars, dt_vars, da_vars, bt_vars>>

\* analyze_food lines 56-66 and _build_user_message: the precondition, the
\* choice of the model and the message with the image and the prompt
AnalyzeBuild ==
    /\ h_pc = "analyze"
    /\ LET td == h_inputs.text_description
           img == h_inputs.image_base64
           fail(message) == /\ h_response' = Except("ValueError", message, <<>>)
                            /\ h_pc' = "done"
                            /\ UNCHANGED request
       IN  IF ~Truthy(td) /\ ~Truthy(img)
           THEN fail("Either text_description or image_base64 must be provided")
           ELSE IF Truthy(img) /\ ~validate_base64_image(img)
           THEN fail("Invalid base64 image data")
           ELSE /\ request' =
                      [model |-> IF Truthy(img) THEN "vision_model" ELSE "text_model",
                       max_tokens |-> IF Truthy(img) THEN 600 ELSE 800,
                       media_type |-> IF Truthy(img) THEN get_image_media_type(img.s)
                                      ELSE <<>>,
                       data |-> IF Truthy(img) THEN clean_base64_image(img.s) ELSE <<>>,
                       prompt |-> PromptOf(td)]
                /\ h_pc' = "call"
                /\ UNCHANGED h_response
    /\ UNCHANGED <<event, h_inputs, calls, ex_vars, nd_vars, ag_vars, pp_vars, dt_vars, da_vars, bt_vars>>

\* the replies of the model client in this model
Onion == CompData(StrV(<<" ", " ", "w", "h", "i", "t", "e", " ", "O", "N", "I", "O", "N", " ", "(", "d", "i", "c", "e", "d", ")", " ", " ">>), NumV(10), Pieces, OnionRates)

ReplyValues ==
    { Response(Bowl, StrV(MEAL), ArrV(<<Chicken>>)),
      Response(Bowl, StrV(MEAL), ArrV(<<Chicken, Onion>>)),
      Response(Bowl, StrV(BRANDED_PRODUCT), ArrV(<<>>)),
      Response(Bowl, StrV(<<"s", "n", "a", "c", "k">>), ArrV(<<Chicken>>)),
      Dropped(Response(Bowl, StrV(MEAL), ArrV(<<Chicken>>)), K_dishName),
      Response(Bowl, StrV(MEAL), ArrV(<<Dropped(Chicken, K_quantity)>>)),
      Response(Bowl, StrV(MEAL),
               ArrV(<<CompData(StrV(<<"c", "h", "i", "c", "k", "e", "n", " ", "b", "r", "e", "a", "s", "t">>), StrV(<<"a">>), Grams, ChickenRates)>>)),
      Response(Bowl, StrV(MEAL),
               ArrV(<<CompData(StrV(<<"c", "h", "i", "c", "k", "e", "n", " ", "b", "r", "e", "a", "s", "t">>), NullV, Grams, ChickenRates)>>)),
      ArrV(<<Chicken>>),
      ObjV(<<>>) }

Replies ==
    { Serialize(r) : r \in ReplyValues }
    \cup { Wrapped(<<"a", ":", "\n">>, JsonTag,
                   Response(Bowl, StrV(MEAL), ArrV(<<Chicken>>)), <<>>) }
    \cup { <<"s", "o", "r", "r", "y">>, <<>>, <<"1">>, <<"0">>, <<"[", "1", "]">>, <<"\"", "a", "\"">>,
           <<"t", "r", "u", "e">>, <<"n", "u", "l", "l">>, <<"{", "\"", "a", "\"", ":">>,
           <<LongDigits>> }

\* what the client's call can end in besides a reply: an error of the API,
\* or a reply without content, on which content[0] is an IndexError
CallErrors == {"APIError", "IndexError"}

\* lines 69-83: the one call of the model client
ModelCall ==
    /\ h_pc = "call"
    /\ calls' = calls + 1
    /\ \/ \E reply \in Replies :
             /\ text' = reply
             /\ ex_pc' = "start"
             /\ h_pc' = "extract"
             /\ UNCHANGED h_response
       \/ \E exc \in CallErrors :
             /\ h_response' = Except(exc, "", <<>>)
             /\ h_pc' = "done"
             /\ UNCHANGED <<text, ex_pc>>
    /\ UNCHANGED <<event, h_inputs, request, json_str, attempt, ex_ret,
                   nd_vars, ag_vars, pp_vars, dt_vars, da_vars, bt_vars>>

\* analyze_food as it would be if a reply without JSON were asked for again
AnalyzeParsedRetrying ==
    /\ h_pc = "extract"
    /\ ex_pc = "done"
    /\ IF ex_ret.kind = "raise"
       THEN /\ h_response' = Except(ex_ret.exc, LibraryMessage, <<>>)
            /\ h_pc' = "done"
            /\ UNCHANGED <<response_json, pp_pc>>
       ELSE IF ~Truthy(ex_ret.val)
       THEN /\ IF calls < 2
               THEN h_pc' = "call" /\ UNCHANGED h_response
               ELSE /\ h_response' = Except("ValueError",
                                        "Failed to parse JSON from Claude response: ",
                                        First200(text))
                    /\ h_pc' = "done"
            /\ UNCHANGED <<response_json, pp_pc>>
       ELSE /\ response_json' = ex_ret.val
            /\ pp_pc' = "begin"
            /\ h_pc' = "parse"
            /\ UNCHANGED h_response
    /\ UNCHANGED <<event, h_inputs, request, calls, pp_items, pp_i, pp_components,
                   pp_totals, pp_ret, pp_msg, pp_result, api_response,
                   ex_vars, nd_vars, ag_vars, dt_vars, da_vars, bt_vars>>

\* lines 86-92: what extract_json_from_response gave is tested for truth
\* and handed to _parse_claude_response
AnalyzeParsed ==
    /\ h_pc = "extract"
    /\ ex_pc = "done"
    /\ IF ex_ret.kind = "raise"
       THEN /\ h_response' = Except(ex_ret.exc, LibraryMessage, <<>>)
            /\ h_pc' = "done"
            /\ UNCHANGED <<response_json, pp_pc>>
       ELSE IF ~Truthy(ex_ret.val)
       THEN /\ h_response' = Except("ValueError",
                                "Failed to parse JSON from Claude response: ",
                                First200(text))
            /\ h_pc' = "done"
            /\ UNCHANGED <<response_json, pp_pc>>
       ELSE /\ response_json' = ex_ret.val
            /\ pp_pc' = "begin"
            /\ h_pc' = "parse"
            /\ UNCHANGED h_response
    /\ UNCHANGED <<event, h_inputs, request, calls, pp_items, pp_i, pp_components,
                   pp_totals, pp_ret, pp_msg, pp_result, api_response,
                   ex_vars, nd_vars, ag_vars, dt_vars, da_vars, bt_vars>>

\* handler.py lines 62-88: the response, or the except clause of what
\* _parse_claude_response raised
HandlerRespond ==
    /\ h_pc = "parse"
    /\ pp_pc = "done"
    /\ h_response' = IF pp_ret = "return" THEN Success(api_response)
                     ELSE Except(pp_ret, LibraryMessage, <<>>)
    /\ h_pc' = "done"
    /\ UNCHANGED <<event, h_inputs, request, calls, ex_vars, nd_vars, ag_vars, pp_vars, dt_vars, da_vars, bt_vars>>

\* the events lambda_handler is run on
Descriptions == { NullV, StrV(<<>>), StrV(<<"r", "i", "c", "e">>) }

Images ==
    { NullV, StrV(<<>>), StrV(<<"a", "b", "c", "d">>), StrV(<<"a", "b", "c">>), StrV(<<"a", "b", "=", "=">>),
      StrV(<<"!", "!", "!", "!">>),
      StrV(<<"d", "a", "t", "a", ":", "i", "m", "a", "g", "e", "/", "p", "n", "g", ";", "b", "a", "s", "e", "6", "4", ",", "a", "b", "c", "d">>), StrV(<<"d", "a", "t", "a", ":", "i", "m", "a", "g", "e", "/", "p", "n", "g", ";", "b", "a", "s", "e", "6", "4">>), NumV(10) }

\* a body with the keys whose flag is set
BodyOf(td, img, hasTd, hasImg) ==
    ObjV((IF hasTd THEN <<KV(K_textDescription, td)>> ELSE <<>>)
         \o (IF hasImg THEN <<KV(K_imageBase64, img)>> ELSE <<>>))

Bodies ==
    { BodyOf(td, img, TRUE, TRUE) : td \in Descriptions, img \in Images }
    \cup { BodyOf(td, NullV, TRUE, FALSE) : td \in Descriptions }
    \cup { BodyOf(NullV, img, FALSE, TRUE) : img \in Images }
    \cup { ObjV(<<>>) }

\* a key as a JSON string
JsonKey(key) == <<"\"">> \o key \o <<"\"">>

Events ==
    { NoBody }
    \cup { ValBody(b) : b \in Bodies }
    \cup { StrBody(Serialize(b)) : b \in Bodies }
    \cup { ValBody(ArrV(<<>>)), ValBody(NumV(10)) }
    \cup { StrBody(s) : s \in { <<>>, <<"r", "i", "c", "e">>, <<"[", "1", "]">>, <<"1">>,
                                <<"n", "u", "l", "l">>, <<"\"", "a", "\"">>,
                                <<LongDigits>>, <<"{", "\"", "a", "\"", ":">>,
                                <<"N", "a", "N">>,
                                <<"{">> \o JsonKey(K_textDescription)
                                        \o <<":", " ", "N", "a", "N", "}">> } }

HandlerStart ==
    /\ h_pc = "start"
    /\ event \in Events
    /\ h_inputs = NoInputs
    /\ request = NoRequest
    /\ calls = 0
    /\ h_response = NoResponse

-----------------------------------------------------------------------------
(* _parse_claude_response, the direct-total variant:                       *)
(* analyse_food_image_lambda/service/claude_vision_service.py lines        *)
(* 173-213.  The reply gives each component's nutrition and the total.     *)

K_item_type == <<"i", "t", "e", "m", "_", "t", "y", "p", "e">>

K_dish_name == <<"d", "i", "s", "h", "_", "n", "a", "m", "e">>

K_claude_estimate == <<"c", "l", "a", "u", "d", "e", "_", "e", "s", "t", "i", "m", "a", "t", "e">>

K_total_claude_estimate == <<"t", "o", "t", "a", "l", "_">> \o K_claude_estimate

K_brand == <<"b", "r", "a", "n", "d">>

K_barcode == <<"b", "a", "r", "c", "o", "d", "e">>

DirectComponent(name, item_type, quantity, unit, estimate, brand, barcode) ==
    [name |-> name, item_type |-> item_type, quantity |-> quantity, unit |-> unit,
     claude_estimate |-> estimate, brand |-> brand, barcode |-> barcode]

NoDirectComponent == DirectComponent(NullV, <<>>, 0, NullV, NoData, NullV, NullV)

DirectRaised(exc, msg) ==
    [st |-> "raise", exc |-> exc, msg |-> msg, comp |-> NoDirectComponent]

\* str(e) of what a subscript raised
SubscriptMessage(x, key) == IF x.exc = "KeyError" THEN Quoted(key) ELSE InterpreterMessage

\* ItemType(v)
ItemTypeOf(v) == v.t = "str" /\ v.s \in ItemTypes

\* create_nutrition_data_from_dict(obj[key])
NutritionAt(obj, key) ==
    LET x == Subscript(obj, key)
    IN  IF x.st = "raise" THEN [kind |-> "raise", exc |-> x.exc, nd |-> NoData]
        ELSE create_nutrition_data_from_dict(x.v)

\* the FoodComponent call of lines 190-198, given what each argument
\* evaluates to: the arguments are evaluated in the order written, and the
\* first that raises ends the call
DirectBuilt(comp_data, name, kind, quantity, unit, estimate) ==
    IF name.st = "raise" THEN DirectRaised(name.exc, SubscriptMessage(name, K_name))
    ELSE IF kind.st = "raise"
    THEN DirectRaised(kind.exc, SubscriptMessage(kind, K_item_type))
    ELSE IF ~ItemTypeOf(kind.v) THEN DirectRaised("ValueError", NotValidItemType(kind.v))
    ELSE IF quantity.st = "raise"
    THEN DirectRaised(quantity.exc,
                      IF quantity.exc = "KeyError" THEN Quoted(K_quantity)
                      ELSE InterpreterMessage)
    ELSE IF unit.st = "raise" THEN DirectRaised(unit.exc, SubscriptMessage(unit, K_unit))
    ELSE IF estimate.kind = "raise"
    THEN DirectRaised(estimate.exc,
                      IF estimate.exc = "KeyError" THEN Quoted(K_claude_estimate)
                      ELSE InterpreterMessage)
    ELSE [st |-> "ok", exc |-> "", msg |-> <<>>,
          comp |-> DirectComponent(name.v, kind.v.s, quantity.n, unit.v, estimate.nd,
                                   DictGet(comp_data, K_brand, NullV),
                                   DictGet(comp_data, K_barcode, NullV))]

\* lines 190-198 for one comp_data
DirectOutcome(comp_data) ==
    DirectBuilt(comp_data,
                Subscript(comp_data, K_name),
                Subscript(comp_data, K_item_type),
                FloatAt(comp_data, K_quantity),
                Subscript(comp_data, K_unit),
                NutritionAt(comp_data, K_claude_estimate))

DirectResult(dish_name, item_type, components, total, raw) ==
    [dish_name |-> dish_name, item_type |-> item_type, components |-> components,
     total_claude_estimate |-> total, raw_response |-> raw]

NoDirectResult == DirectResult(NullV, <<>>, <<>>, NoData, <<>>)

DirectIdle ==
    /\ dt_pc = "idle"
    /\ dt_json = NullV
    /\ dt_items = <<>>
    /\ dt_i = 0
    /\ dt_components = <<>>
    /\ dt_ret = "pending"
    /\ dt_msg = <<>>
    /\ dt_result = NoDirectResult

\* lines 187-189: the loop starts
DirectBegin ==
    /\ dt_pc = "begin"
    /\ LET it == ComponentItems(dt_json)
       IN  IF it.st = "raise"
           THEN /\ dt_pc' = "done"
                /\ dt_ret' = it.exc
                /\ dt_msg' = InterpreterMessage
                /\ UNCHANGED dt_items
           ELSE /\ dt_pc' = "loop"
                /\ dt_items' = it.items
                /\ UNCHANGED <<dt_ret, dt_msg>>
    /\ UNCHANGED <<dt_json, dt_i, dt_components, dt_result,
                   ex_vars, nd_vars, ag_vars, pp_vars, h_vars, da_vars, bt_vars>>

\* one turn of the loop, lines 189-199
DirectBuild ==
    /\ dt_pc = "loop"
    /\ dt_i < Len(dt_items)
    /\ \E out \in { DirectOutcome(dt_items[dt_i + 1]) } :
          IF out.st = "raise"
          THEN /\ dt_pc' = "done"
               /\ dt_ret' = out.exc
               /\ dt_msg' = out.msg
               /\ UNCHANGED <<dt_i, dt_components>>
          ELSE /\ dt_components' = Append(dt_components, out.comp)
               /\ dt_i' = dt_i + 1
               /\ UNCHANGED <<dt_pc, dt_ret, dt_msg>>
    /\ UNCHANGED <<dt_json, dt_items, dt_result,
                   ex_vars, nd_vars, ag_vars, pp_vars, h_vars, da_vars, bt_vars>>

\* lines 201-213, given what the total, the dish name and the item type
\* evaluate to: the total is read first, then the arguments of
\* ClaudeAnalysisResult in the order written
\* the result as it would be if the total were taken from the components
DirectAssembledFromComponents(total, dish, kind, components, raw) ==
    LET fail(exc, msg) == [ret |-> exc, msg |-> msg, result |-> NoDirectResult]
    IN  IF total.kind = "raise"
        THEN fail(total.exc, IF total.exc = "KeyError"
                             THEN Quoted(K_total_claude_estimate)
                             ELSE InterpreterMessage)
        ELSE IF dish.st = "raise" THEN fail(dish.exc, Quoted(K_dish_name))
        ELSE IF kind.st = "raise" THEN fail(kind.exc, Quoted(K_item_type))
        ELSE IF ~ItemTypeOf(kind.v) THEN fail("ValueError", NotValidItemType(kind.v))
        ELSE [ret |-> "return", msg |-> <<>>,
              result |-> DirectResult(dish.v, kind.v.s, components,
                                      IF components = <<>> THEN total.nd
                                      ELSE components[1].claude_estimate,
                                      raw)]

DirectAssembled(total, dish, kind, components, raw) ==
    LET fail(exc, msg) == [ret |-> exc, msg |-> msg, result |-> NoDirectResult]
    IN  IF total.kind = "raise"
        THEN fail(total.exc, IF total.exc = "KeyError"
                             THEN Quoted(K_total_claude_estimate)
                             ELSE InterpreterMessage)
        ELSE IF dish.st = "raise" THEN fail(dish.exc, Quoted(K_dish_name))
        ELSE IF kind.st = "raise" THEN fail(kind.exc, Quoted(K_item_type))
        ELSE IF ~ItemTypeOf(kind.v) THEN fail("ValueError", NotValidItemType(kind.v))
        ELSE [ret |-> "return", msg |-> <<>>,
              result |-> DirectResult(dish.v, kind.v.s, components, total.nd, raw)]

\* lines 201-213: the total as the reply gives it, and the result
DirectAssemble ==
    /\ dt_pc = "loop"
    /\ dt_i = Len(dt_items)
    /\ \E out \in { DirectAssembled(NutritionAt(dt_json, K_total_claude_estimate),
                                    Subscript(dt_json, K_dish_name),
                                    Subscript(dt_json, K_item_type),
                                    dt_components, text) } :
          /\ dt_pc' = "done"
          /\ dt_ret' = out.ret
          /\ IF out.ret = "return"
             THEN dt_result' = out.result /\ UNCHANGED dt_msg
             ELSE dt_msg' = out.msg /\ UNCHANGED dt_result
    /\ UNCHANGED <<dt_json, dt_items, dt_i, dt_components,
                   ex_vars, nd_vars, ag_vars, pp_vars, h_vars, da_vars, bt_vars>>

\* the replies the direct-total variant is run on
DirectData(name, kind, quantity, unit, estimate) ==
    ObjV(<<KV(K_name, name), KV(K_item_type, kind), KV(K_quantity, quantity),
           KV(K_unit, unit), KV(K_claude_estimate, estimate)>>)

Macros(cal, pro, carb, fat) ==
    ObjV(<<KV(K_calories, NumV(cal)), KV(K_protein, NumV(pro)),
           KV(K_carbs, NumV(carb)), KV(K_fat, NumV(fat))>>)

RiceEstimate ==
    ObjV(Macros(2050, 43, 450, 4).kv \o <<KV(K_fiber, NumV(6)), KV(K_sugar, NumV(0))>>)

Rice == DirectData(StrV(<<"r", "i", "c", "e">>), StrV(MEAL_COMPONENT), NumV(1500), Grams, RiceEstimate)

ValidDirect ==
    { Rice,
      DirectData(StrV(<<"o", "n", "i", "o", "n">>), StrV(MEAL_COMPONENT), NumV(10), Pieces, Macros(5, 25, 15, 3)),
      DirectData(StrV(<<"b", "a", "r">>), StrV(BRANDED_PRODUCT), StrV(<<"2">>), Pieces,
                 Macros(900, 30, 120, 35)),
      DirectData(StrV(<<"s", "o", "u", "p">>), StrV(MEAL), NumV(3000), StrV(<<"m", "l">>),
                 Macros(1200, 60, 100, 40)),
      DirectData(NullV, StrV(MEAL_COMPONENT), NumV(-10), StrV(<<"o", "z">>),
                 Macros(-50, 0, 0, 0)),
      ObjV(Rice.kv \o <<KV(K_brand, StrV(<<"b">>)), KV(K_barcode, NumV(10))>>) }

InvalidDirect ==
    { DirectData(StrV(<<"r", "i", "c", "e">>), StrV(<<"s", "n", "a", "c", "k">>), NumV(10), Grams, RiceEstimate),
      DirectData(StrV(<<"r", "i", "c", "e">>), StrV(MEAL_COMPONENT), StrV(<<"a">>), Grams, RiceEstimate),
      DirectData(StrV(<<"r", "i", "c", "e">>), StrV(MEAL_COMPONENT), NumV(10), Grams, NullV),
      DirectData(StrV(<<"r", "i", "c", "e">>), StrV(MEAL_COMPONENT), NumV(10), Grams,
                 ObjV(<<KV(K_calories, StrV(<<"a">>))>>)),
      Dropped(Rice, K_name),
      Dropped(Rice, K_item_type),
      Dropped(Rice, K_claude_estimate),
      StrV(<<"r", "i", "c", "e">>) }

DirectPool == ValidDirect \cup InvalidDirect

DirectLists == UNION { [1..n -> DirectPool] : n \in 0..MaxComps }

DirectResponse(dish, kind, total, comps) ==
    ObjV(<<KV(K_dish_name, dish), KV(K_item_type, kind),
           KV(K_total_claude_estimate, total), KV(K_components, comps)>>)

\* dish name, item type and total as the reply gives them
DirectHeaders ==
    { <<Bowl, StrV(MEAL), Macros(9990, 10, 20, 30)>>,
      <<Bowl, StrV(BRANDED_PRODUCT), RiceEstimate>>,
      <<NullV, StrV(MEAL), Macros(0, 0, 0, 0)>>,
      <<Bowl, StrV(<<"s", "n", "a", "c", "k">>), RiceEstimate>>,
      <<Bowl, StrV(MEAL), ObjV(<<KV(K_fat, NullV)>>)>> }

DirectResponses ==
    { DirectResponse(h[1], h[2], h[3], ArrV(cs)) : h \in DirectHeaders, cs \in DirectLists }
    \cup { Dropped(DirectResponse(Bowl, StrV(MEAL), RiceEstimate, ArrV(<<Rice>>)), k) :
             k \in {K_dish_name, K_item_type, K_total_claude_estimate, K_components} }
    \cup { DirectResponse(Bowl, StrV(MEAL), RiceEstimate, NullV), ArrV(<<Rice>>) }

DirectStart ==
    /\ dt_pc = "begin"
    /\ dt_json \in DirectResponses
    /\ dt_items = <<>>
    /\ dt_i = 0
    /\ dt_components = <<>>
    /\ dt_ret = "pending"
    /\ dt_msg = <<>>
    /\ dt_result = NoDirectResult

-----------------------------------------------------------------------------
(* analyze_food of the direct-total variant:                               *)
(* analyse_food_image_lambda/service/claude_vision_service.py lines 33-76  *)
(* and _build_user_message, lines 132-171 *)

\* how a call of analyze_food ended
Outcome(ret, message, detail, result) ==
    [ret |-> ret, message |-> message, detail |-> detail, result |-> result]

NoOutcome == Outcome("pending", "", <<>>, NoDirectResult)

\* the prompt of lines 158-161
DirectPromptOf(td) ==
    IF ~Truthy(td)
    THEN <<"A", "n", "a", "l", "y", "z", "e", " ", "t", "h", "e", " ", "f", "o", "o", "d", " ", "i", "n", " ", "t", "h", "i", "s", " ", "i", "m", "a", "g", "e", ".">>
    ELSE <<"A", "n", "a", "l", "y", "z", "e", " ", "t", "h", "i", "s", " ", "f", "o", "o", "d", ":", " ">>
         \o (IF td.t = "str" THEN td.s
             ELSE IF td.t = "nan" THEN <<"n", "a", "n">>
             ELSE Serialize(td))

DirectAnalyzeIdle ==
    /\ da_pc = "idle"
    /\ da_inputs = NoInputs
    /\ da_request = NoRequest
    /\ da_calls = 0
    /\ da_out = NoOutcome

\* lines 51-56 and _build_user_message: the precondition and the message
DirectAnalyzeBuild ==
    /\ da_pc = "analyze"
    /\ LET td == da_inputs.text_description
           img == da_inputs.image_base64
           fail(message) == /\ da_out' = Outcome("ValueError", message, <<>>, NoDirectResult)
                            /\ da_pc' = "done"
                            /\ UNCHANGED da_request
       IN  IF ~Truthy(td) /\ ~Truthy(img)
           THEN fail("Either text_description or image_base64 must be provided")
           ELSE IF Truthy(img) /\ ~validate_base64_image(img)
           THEN fail("Invalid base64 image data")
           ELSE /\ da_request' =
                      [model |-> "model",
                       max_tokens |-> 4000,
                       media_type |-> IF Truthy(img) THEN get_image_media_type(img.s)
                                      ELSE <<>>,
                       data |-> IF Truthy(img) THEN clean_base64_image(img.s) ELSE <<>>,
                       prompt |-> DirectPromptOf(td)]
                /\ da_pc' = "call"
                /\ UNCHANGED da_out
    /\ UNCHANGED <<da_inputs, da_calls, ex_vars, nd_vars, ag_vars, pp_vars, h_vars, dt_vars, bt_vars>>

\* the replies of the model client to the direct-total variant
DirectReplyValues ==
    { DirectResponse(Bowl, StrV(MEAL), RiceEstimate, ArrV(<<Rice>>)),
      DirectResponse(Bowl, StrV(MEAL), Macros(9990, 10, 20, 30), ArrV(<<Rice, Rice>>)),
      DirectResponse(Bowl, StrV(BRANDED_PRODUCT), RiceEstimate, ArrV(<<>>)),
      DirectResponse(Bowl, StrV(<<"s", "n", "a", "c", "k">>), RiceEstimate, ArrV(<<Rice>>)),
      Dropped(DirectResponse(Bowl, StrV(MEAL), RiceEstimate, ArrV(<<Rice>>)), K_dish_name),
      DirectResponse(Bowl, StrV(MEAL), NullV, ArrV(<<Rice>>)),
      ArrV(<<Rice>>),
      ObjV(<<>>) }

DirectReplies ==
    { Serialize(r) : r \in DirectReplyValues }
    \cup { Wrapped(<<"a", ":", "\n">>, JsonTag,
                   DirectResponse(Bowl, StrV(MEAL), RiceEstimate, ArrV(<<Rice>>)), <<>>) }
    \cup { <<"s", "o", "r", "r", "y">>, <<>>, <<"1">>, <<"0">>, <<"[", "]">>,
           <<"n", "u", "l", "l">>, <<"{", "\"", "a", "\"", ":">>, <<LongDigits>> }

\* lines 59-67: the one call of the model client
DirectModelCall ==
    /\ da_pc = "call"
    /\ da_calls' = da_calls + 1
    /\ \/ \E reply \in DirectReplies :
             /\ text' = reply
             /\ ex_pc' = "start"
             /\ da_pc' = "extract"
             /\ UNCHANGED da_out
       \/ \E exc \in CallErrors :
             /\ da_out' = Outcome(exc, "", <<>>, NoDirectResult)
             /\ da_pc' = "done"
             /\ UNCHANGED <<text, ex_pc>>
    /\ UNCHANGED <<da_inputs, da_request, json_str, attempt, ex_ret,
                   nd_vars, ag_vars, pp_vars, h_vars, dt_vars, bt_vars>>

\* lines 70-76: what extract_json_from_response gave is tested for truth
\* and handed to _parse_claude_response
DirectAnalyzeParsed ==
    /\ da_pc = "extract"
    /\ ex_pc = "done"
    /\ IF ex_ret.kind = "raise"
       THEN /\ da_out' = Outcome(ex_ret.exc, LibraryMessage, <<>>, NoDirectResult)
            /\ da_pc' = "done"
            /\ UNCHANGED <<dt_json, dt_pc>>
       ELSE IF ~Truthy(ex_ret.val)
       THEN /\ da_out' = Outcome("ValueError",
                                 "Failed to parse JSON from Claude response: ",
                                 First200(text), NoDirectResult)
            /\ da_pc' = "done"
            /\ UNCHANGED <<dt_json, dt_pc>>
       ELSE /\ dt_json' = ex_ret.val
            /\ dt_pc' = "begin"
            /\ da_pc' = "parse"
            /\ UNCHANGED da_out
    /\ UNCHANGED <<da_inputs, da_request, da_calls, dt_items, dt_i, dt_components,
                   dt_ret, dt_msg, dt_result, ex_vars, nd_vars, ag_vars, pp_vars, h_vars, bt_vars>>

\* line 76: what _parse_claude_response returned or raised leaves
\* analyze_food as it is
DirectAnalyzeReturn ==
    /\ da_pc = "parse"
    /\ dt_pc = "done"
    /\ da_out' = Outcome(dt_ret, IF dt_ret = "return" THEN "" ELSE LibraryMessage,
                         <<>>, dt_result)
    /\ da_pc' = "done"
    /\ UNCHANGED <<da_inputs, da_request, da_calls, ex_vars, nd_vars, ag_vars,
                   pp_vars, h_vars, dt_vars, bt_vars>>

\* the arguments analyze_food is called with
DirectAnalyzeStart ==
    /\ da_pc = "analyze"
    /\ \E td \in Descriptions : \E img \in Images :
          da_inputs = [text_description |-> td, image_base64 |-> img]
    /\ da_request = NoRequest
    /\ da_calls = 0
    /\ da_out = NoOutcome

-----------------------------------------------------------------------------
(* The batch endpoint: src/app.py, fetch_nutrition_batch, lines 23-43 *)
(* (the same executor and gather as main, lines 23-33 of                 *)
(* woolworths/nutrition_provider_batch_requests.py)                      *)

\* ThreadPoolExecutor(max_workers=5), line 31
max_workers == 5

\* the longest list of products requested
MaxProducts == 6

ProductNames ==
    << <<"m", "i", "l", "k">>, <<"b", "r", "e", "a", "d">>, <<"m", "i", "l", "k">>,
       <<"h", "o", "n", "e", "y">> >>

\* the request of n products: names repeat, as a request may
Requested(n) ==
    [i \in 1..n |-> ProductNames[((i - 1) % Len(ProductNames)) + 1]]

\* what get_nutrition_info may return for a product: a NutritionInfo found
\* at the source or one that is estimated
NutritionInfo(source, estimated) == [source |-> source, estimated |-> estimated]

Infos == { NutritionInfo("Woolworths", FALSE), NutritionInfo("Estimated from web", TRUE) }

NoInfo == NutritionInfo("", FALSE)

Future(st, result) == [st |-> st, result |-> result]

\* nutrition.dict(), line 38
InfoDict(info) == [source |-> info.source, estimated |-> info.estimated]

BatchEntry(product_name, nutrition) ==
    [product_name |-> product_name, nutrition |-> InfoDict(nutrition)]

BatchAnswer(status, detail, entries) ==
    [status |-> status, detail |-> detail, entries |-> entries]

NoAnswer == BatchAnswer(0, 0, <<>>)

Running == { i \in DOMAIN futures : futures[i].st = "running" }

Queued == { i \in DOMAIN futures : futures[i].st = "queued" }

Settled == \A i \in DOMAIN futures : futures[i].st \in {"ok", "failed"}

\* what asyncio.gather gives as if it listed the results from the last
\* task to the first
gather_reversed(futs) ==
    [i \in DOMAIN futs |-> futs[Len(futs) + 1 - i].result]

\* asyncio.gather(*tasks), line 33: the results in the order of the tasks
gather(futs) == [i \in DOMAIN futs |-> futs[i].result]

BatchIdle ==
    /\ bt_pc = "idle"
    /\ products = <<>>
    /\ futures = <<>>
    /\ bt_raised = 0
    /\ batch_results = <<>>
    /\ results = <<>>
    /\ bt_response = NoAnswer

BatchStart ==
    /\ bt_pc = "submit"
    /\ \E n \in 0..MaxProducts : products = Requested(n)
    /\ futures = <<>>
    /\ bt_raised = 0
    /\ batch_results = <<>>
    /\ results = <<>>
    /\ bt_response = NoAnswer

\* line 32: one run_in_executor per product, in the order of the request;
\* every call is put on the executor's queue
BatchSubmit ==
    /\ bt_pc = "submit"
    /\ futures' = [i \in DOMAIN products |-> Future("queued", NoInfo)]
    /\ bt_pc' = "gather"
    /\ UNCHANGED <<products, bt_raised, batch_results, results, bt_response,
                   ex_vars, nd_vars, ag_vars, pp_vars, h_vars, dt_vars, da_vars>>

\* a worker thread of the executor takes the call that has been queued
\* longest; there are never more than max_workers threads
WorkerStart ==
    /\ bt_pc \in {"gather", "exit"}
    /\ Queued # {}
    /\ Cardinality(Running) < max_workers
    /\ LET i == CHOOSE j \in Queued : \A k \in Queued : j <= k
       IN  futures' = [futures EXCEPT ![i].st = "running"]
    /\ UNCHANGED <<bt_pc, products, bt_raised, batch_results, results, bt_response,
                   ex_vars, nd_vars, ag_vars, pp_vars, h_vars, dt_vars, da_vars>>

\* get_nutrition_info(product) returns in its thread
LookupReturn ==
    /\ bt_pc \in {"gather", "exit"}
    /\ \E i \in Running : \E info \in Infos :
          futures' = [futures EXCEPT ![i] = Future("ok", info)]
    /\ UNCHANGED <<bt_pc, products, bt_raised, batch_results, results, bt_response,
                   ex_vars, nd_vars, ag_vars, pp_vars, h_vars, dt_vars, da_vars>>

\* get_nutrition_info(product) raises in its thread; the first exception
\* that reaches gather is the one gather raises
LookupRaise ==
    /\ bt_pc \in {"gather", "exit"}
    /\ \E i \in Running :
          /\ futures' = [futures EXCEPT ![i].st = "failed"]
          /\ bt_raised' = IF bt_pc = "gather" /\ bt_raised = 0 THEN i ELSE bt_raised
    /\ UNCHANGED <<bt_pc, products, batch_results, results, bt_response,
                   ex_vars, nd_vars, ag_vars, pp_vars, h_vars, dt_vars, da_vars>>

\* line 33: every task has a result, await gives the list; leaving the
\* with block finds no work left
GatherReturn ==
    /\ bt_pc = "gather"
    /\ bt_raised = 0
    /\ \A i \in DOMAIN futures : futures[i].st = "ok"
    /\ batch_results' = gather(futures)
    /\ bt_pc' = "convert"
    /\ UNCHANGED <<products, futures, bt_raised, results, bt_response,
                   ex_vars, nd_vars, ag_vars, pp_vars, h_vars, dt_vars, da_vars>>

\* line 33: await raises the exception of a lookup while others may still
\* run or wait; control leaves the with block
GatherRaise ==
    /\ bt_pc = "gather"
    /\ bt_raised # 0
    /\ bt_pc' = "exit"
    /\ UNCHANGED <<products, futures, bt_raised, batch_results, results, bt_response,
                   ex_vars, nd_vars, ag_vars, pp_vars, h_vars, dt_vars, da_vars>>

\* lines 31 and 41-43: the exit of the with block waits for every call
\* submitted, then the except clause answers 500
BatchFail ==
    /\ bt_pc = "exit"
    /\ Settled
    /\ bt_response' = BatchAnswer(500, bt_raised, <<>>)
    /\ bt_pc' = "done"
    /\ UNCHANGED <<products, futures, bt_raised, batch_results, results,
                   ex_vars, nd_vars, ag_vars, pp_vars, h_vars, dt_vars, da_vars>>

\* lines 36-38: one entry per pair of zip(products, batch_results)
BatchAppend ==
    /\ bt_pc = "convert"
    /\ Len(results) < Min({Len(products), Len(batch_results)})
    /\ LET k == Len(results) + 1
       IN  results' = Append(results, BatchEntry(products[k], batch_results[k]))
    /\ UNCHANGED <<bt_pc, products, futures, bt_raised, batch_results, bt_response,
                   ex_vars, nd_vars, ag_vars, pp_vars, h_vars, dt_vars, da_vars>>

\* line 40
BatchReturn ==
    /\ bt_pc = "convert"
    /\ Len(results) = Min({Len(products), Len(batch_results)})
    /\ bt_response' = BatchAnswer(200, 0, results)
    /\ bt_pc' = "done"
    /\ UNCHANGED <<products, futures, bt_raised, batch_results, results,
                   ex_vars, nd_vars, ag_vars, pp_vars, h_vars, dt_vars, da_vars>>

-----------------------------------------------------------------------------
(* Specifications *)

vars == <<ex_vars, nd_vars, ag_vars, pp_vars, h_vars, dt_vars, da_vars, bt_vars>>

ExtractInit == ExtractStart /\ NormIdle /\ AggIdle /\ ParseIdle /\ HandlerIdle /\ DirectIdle /\ DirectAnalyzeIdle /\ BatchIdle

SpecExtract == ExtractInit /\ [][ExtractNext]_vars

NormInit == NormStart /\ ExtractIdle /\ AggIdle /\ ParseIdle /\ HandlerIdle /\ DirectIdle /\ DirectAnalyzeIdle /\ BatchIdle

NormNext == Normalize \/ Renormalize

SpecNorm == NormInit /\ [][NormNext]_vars

AggInit == AggStart /\ ExtractIdle /\ NormIdle /\ ParseIdle /\ HandlerIdle /\ DirectIdle /\ DirectAnalyzeIdle /\ BatchIdle

AggNext == AggAdd \/ AggCleanup

SpecAgg == AggInit /\ [][AggNext]_vars

ParseInit == ParseStart /\ ExtractIdle /\ NormIdle /\ AggIdle /\ HandlerIdle /\ DirectIdle /\ DirectAnalyzeIdle /\ BatchIdle

ParseNext == ParseBegin \/ ParseComponent \/ ParseAssemble \/ ApiResponse

SpecParse == ParseInit /\ [][ParseNext]_vars

DirectInit ==
    DirectStart /\ ExtractIdle /\ NormIdle /\ AggIdle /\ ParseIdle /\ HandlerIdle
    /\ DirectAnalyzeIdle /\ BatchIdle

DirectNext == DirectBegin \/ DirectBuild \/ DirectAssemble

SpecDirect == DirectInit /\ [][DirectNext]_vars

\* a reply parsed by one of the two variants
BothInit == ParseInit \/ DirectInit

BothNext == ParseNext \/ DirectNext

SpecBoth == BothInit /\ [][BothNext]_vars

BatchInit ==
    BatchStart /\ ExtractIdle /\ NormIdle /\ AggIdle /\ ParseIdle /\ HandlerIdle
    /\ DirectIdle /\ DirectAnalyzeIdle

BatchNext ==
    \/ BatchSubmit
    \/ WorkerStart
    \/ LookupReturn
    \/ LookupRaise
    \/ GatherReturn
    \/ GatherRaise
    \/ BatchFail
    \/ BatchAppend
    \/ BatchReturn

SpecBatch == BatchInit /\ [][BatchNext]_vars

AnalyzeInit ==
    DirectAnalyzeStart /\ ExtractIdle /\ NormIdle /\ AggIdle /\ ParseIdle /\ HandlerIdle
    /\ DirectIdle /\ BatchIdle

AnalyzeNext ==
    \/ DirectAnalyzeBuild
    \/ DirectModelCall
    \/ ExtractSelect
    \/ ExtractLoad
    \/ DirectAnalyzeParsed
    \/ DirectBegin
    \/ DirectBuild
    \/ DirectAssemble
    \/ DirectAnalyzeReturn

SpecAnalyze == AnalyzeInit /\ [][AnalyzeNext]_vars

Init == HandlerStart /\ ExtractIdle /\ NormIdle /\ AggIdle /\ ParseIdle /\ DirectIdle /\ DirectAnalyzeIdle /\ BatchIdle

Next ==
    \/ HandlerReceive
    \/ AnalyzeBuild
    \/ ModelCall
    \/ ExtractSelect
    \/ ExtractLoad
    \/ AnalyzeParsed
    \/ ParseBegin
    \/ ParseComponent
    \/ ParseAssemble
    \/ ApiResponse
    \/ HandlerRespond

Spec == Init /\ [][Next]_vars

\* analyze_food of either variant: under lambda_handler, or called directly
CoreInit == Init \/ AnalyzeInit

CoreNext == Next \/ AnalyzeNext

SpecCore == CoreInit /\ [][CoreNext]_vars

-----------------------------------------------------------------------------
(* Claims about the extractor, under SpecExtract *)

FencedFails(s) == FenceStarts(s) # {} /\ JsonLoads(FencedGroup(s)).st # "ok"

OuterParses(s) == OuterMatches(s) /\ JsonLoads(OuterSpan(s)).st = "ok"

WholeParses(s) == JsonLoads(s).st = "ok"

\* the value of the first later attempt that parses
LaterValue(s) ==
    IF OuterParses(s) THEN JsonLoads(OuterSpan(s)).v ELSE JsonLoads(s).v

\* C1: when a fenced block matches but its content is not valid JSON while
\* the outer-brace span (or the whole text) is, the extractor falls through
\* and returns the later span's parsed value.
C1_FallsThrough ==
    (ex_pc = "done" /\ FencedFails(text) /\ (OuterParses(text) \/ WholeParses(text)))
        => ex_ret = Returned(LaterValue(text))

\* C2: extracting from the serialization of any JSON object wrapped in a
\* fenced code block tagged json, with commentary before and after, returns
\* an object equal to the original.
C2_RoundTrip ==
    \A pre \in Commentary, o \in Objects, post \in Commentary :
        (ex_pc = "done" /\ text = Wrapped(pre, JsonTag, o, post))
            => ex_ret = Returned(o)

\* C3: the extractor never raises, whatever the text.
C3_NeverRaises == ex_ret.kind # "raise"

\* C4: what the extractor returns is absent or a JSON object, never an
\* array, a number, a string or a boolean.
C4_ObjectOrAbsent ==
    (ex_pc = "done" /\ ex_ret.kind = "return") => ex_ret.val.t \in {"null", "obj"}

-----------------------------------------------------------------------------
(* Claims about the aggregate of calculate_total_nutrition, under SpecAgg *)

OptionalNames == {"fiber", "sugar", "sodium"}

\* the components whose nutrition reports the optional field f
Reporting(comps, f) ==
    { i \in DOMAIN comps : EffectiveNutrition(comps[i])[f].some }

RECURSIVE SumOver(_, _, _)
\* the sum of field f over the components at the positions idx
SumOver(comps, f, idx) ==
    IF idx = {} THEN 0
    ELSE LET i == CHOOSE x \in idx : TRUE
         IN  EffectiveNutrition(comps[i])[f].v + SumOver(comps, f, idx \ {i})

AggReturned == ag_pc = "done" /\ ag_ret = "return"

\* C7: an optional field of the aggregate is absent if and only if no
\* component reports it.
C7_AbsentIffUnreported ==
    AggReturned =>
        \A f \in OptionalNames :
            (~ag_totals[f].some) <=> (Reporting(ag_components, f) = {})

\* C8: when at least one component reports an optional field, the
\* aggregate's field is the sum of the present values only.
C8_SumOfPresent ==
    AggReturned =>
        \A f \in OptionalNames :
            Reporting(ag_components, f) # {}
                => ag_totals[f] = Some(SumOver(ag_components, f,
                                               Reporting(ag_components, f)))


-----------------------------------------------------------------------------
(* Claims about create_nutrition_data_from_dict, under SpecNorm *)

MacroNames == <<"calories", "protein", "carbs", "fat">>

\* a dict all of whose nutrition keys, where present, hold numbers
NumericDict(data) ==
    /\ data.t = "obj"
    /\ \A i \in 1..7 :
          HasKey(data, NutritionKeys[i]) => Lookup(data, NutritionKeys[i]).t = "num"

RequiredAsGiven(data, nd) ==
    \A i \in 1..4 :
       /\ ~HasKey(data, RequiredKeys[i]) => nd[MacroNames[i]] = 0
       /\ (HasKey(data, RequiredKeys[i]) /\ Lookup(data, RequiredKeys[i]).t = "num")
             => nd[MacroNames[i]] = Lookup(data, RequiredKeys[i]).n

\* C10: both variants of create_nutrition_data_from_dict return for a dict
\* whose present nutrition keys hold numbers, whichever required keys are
\* absent, and in whatever they return a required field is 0 when its key is
\* absent and is the number under the key when the key holds a number.
C10_RequiredDefault ==
    nd_pc = "done" =>
       /\ NumericDict(nd_data) => nd_ret.kind = "return" /\ nd4_ret.kind = "return"
       /\ nd_ret.kind = "return" => RequiredAsGiven(nd_data, nd_ret.nd)
       /\ nd4_ret.kind = "return" => RequiredAsGiven(nd_data, nd4_ret.nd)

\* C10 witness: a call on a dict without calories and with a numeric protein
\* has returned in both variants
C10_Witness ==
    /\ nd_pc = "done"
    /\ NumericDict(nd_data)
    /\ ~HasKey(nd_data, K_calories)
    /\ HasKey(nd_data, K_protein)
    /\ Lookup(nd_data, K_protein).n # 0
    /\ nd_ret.kind = "return"
    /\ nd4_ret.kind = "return"
    /\ nd_ret.nd.calories = 0
    /\ nd4_ret.nd.protein = Lookup(nd_data, K_protein).n

-----------------------------------------------------------------------------
(* Claims about the per-unit _parse_claude_response, under SpecParse *)

RECURSIVE SumField(_, _)
\* the sum of the numbers ns
SumField(ns, i) == IF i = 0 THEN 0 ELSE ns[i] + SumField(ns, i - 1)

SumOf(ns) == SumField(ns, Len(ns))

Abs(x) == IF x < 0 THEN 0 - x ELSE x

\* C6: in per-unit mode each of calories, protein, carbs and fat of the
\* total is the sum of that field over the components' estimates: in the
\* totals the loop keeps, in the result returned, and between totalNutrition
\* and the components' nutrition in the response of get_api_response.
C6_TotalIsSum ==
    \A i \in 1..4 :
       LET f == MacroNames[i]
       IN  /\ pp_totals[f] =
                SumOf([k \in DOMAIN pp_components |-> pp_components[k].claude_estimate[f]])
           /\ pp_ret = "return" =>
                pp_result.total_claude_estimate[f] =
                   SumOf([k \in DOMAIN pp_result.components |->
                             pp_result.components[k].claude_estimate[f]])
           /\ (pp_ret = "return" /\ pp_pc = "done") =>
                api_response.totalNutrition[f] =
                   SumOf([k \in DOMAIN api_response.components |->
                             api_response.components[k].nutrition[f]])

\* C6 witness: a response built from two components with different calories
C6_Witness ==
    /\ pp_pc = "done"
    /\ pp_ret = "return"
    /\ Len(api_response.components) = 2
    /\ api_response.components[1].nutrition.calories > 0
    /\ api_response.components[2].nutrition.calories > 0
    /\ api_response.components[1].nutrition.calories
          # api_response.components[2].nutrition.calories
    /\ api_response.totalNutrition.calories
          = api_response.components[1].nutrition.calories
            + api_response.components[2].nutrition.calories

\* rate * quantity of a component, in hundredths
Product(comp, f) == comp.per_unit_nutrition[f] * comp.quantity

\* an integer no further than one half from rate * quantity
Nearest(comp, f) ==
    /\ comp.claude_estimate[f] % Scale = 0
    /\ 2 * Abs(comp.claude_estimate[f] * Scale - Product(comp, f)) <= Scale * Scale

Halfway(comp, f) == 2 * (Product(comp, f) % (Scale * Scale)) = Scale * Scale

\* C9: every field of calories, protein, carbs and fat of every component
\* built is an integer nearest to rate * quantity, also when rate * quantity
\* is halfway between two integers, where either neighbour is nearest.
C9_RoundedToNearest ==
    \A k \in DOMAIN pp_components : \A i \in 1..4 :
       Nearest(pp_components[k], MacroNames[i])

\* C9 witness: the rates 165, 31, 0, 3.6 at quantity 150 have given 24750,
\* 4650, 0, 540, and another component has a field halfway between integers
C9_Witness ==
    /\ pp_ret = "return"
    /\ \E k \in DOMAIN pp_components :
          /\ pp_components[k].per_unit_nutrition = NutritionData4(1650, 310, 0, 36)
          /\ pp_components[k].quantity = 1500
          /\ pp_components[k].claude_estimate = NutritionData4(247500, 46500, 0, 5400)
    /\ \E k \in DOMAIN pp_components : \E i \in 1..4 :
          Halfway(pp_components[k], MacroNames[i])

-----------------------------------------------------------------------------
(* Claims about lambda_handler and analyze_food, under Spec *)

\* some part of s, from an opening to a closing brace, is a JSON object
ContainsObject(s) ==
    \E i \in Places(s, "{") : \E j \in Places(s, "}") :
       /\ i < j
       /\ JsonLoads(SubSeq(s, i, j)).st = "ok"
       /\ JsonLoads(SubSeq(s, i, j)).v.t = "obj"

\* C5: when the reply of the model holds no parseable JSON object,
\* analyze_food fails at the extraction, before _parse_claude_response is
\* entered and without a result, and lambda_handler answers 400.
C5_NoObjectIs400 ==
    (h_pc = "done" /\ calls = 1 /\ ex_pc = "done" /\ ~ContainsObject(text)) =>
        /\ h_response.statusCode = 400
        /\ pp_pc = "idle"
        /\ pp_result = NoResult

-----------------------------------------------------------------------------
(* More claims about create_nutrition_data_from_dict, under SpecNorm *)

\* a value float() has no number for: None, a list, a dict, or a string
\* that is empty or holds a character no number is written with
NotCoercible(v) ==
    \/ v.t \in {"null", "arr", "obj"}
    \/ /\ v.t = "str"
       /\ \/ v.s = <<>>
          \/ \E i \in DOMAIN v.s : v.s[i] \notin Digits \cup {".", "-", "+"} \cup JsonWS

BadRequired(data) ==
    /\ data.t = "obj"
    /\ \E i \in 1..4 :
          HasKey(data, RequiredKeys[i]) /\ NotCoercible(Lookup(data, RequiredKeys[i]))

\* C11: when a required key is present with None, a non-numeric string, a
\* list or a dict, both variants of create_nutrition_data_from_dict raise
\* (the TypeError or ValueError of float()) and return no NutritionData.
C11_BadRequiredRaises ==
    (nd_pc # "start" /\ BadRequired(nd_data)) =>
        /\ nd_ret.kind = "raise"
        /\ nd_ret.exc \in {"TypeError", "ValueError"}
        /\ nd_ret.nd = NoData
        /\ nd4_ret.kind = "raise"
        /\ nd4_ret.exc \in {"TypeError", "ValueError"}
        /\ nd4_ret.nd = NoData4

\* C11 witness: a call on a dict whose protein is a non-numeric string and
\* whose other required keys hold numbers has raised ValueError
C11_Witness ==
    /\ nd_pc # "start"
    /\ nd_data.t = "obj"
    /\ HasKey(nd_data, K_protein)
    /\ Lookup(nd_data, K_protein) = StrV(<<"a">>)
    /\ HasKey(nd_data, K_calories)
    /\ Lookup(nd_data, K_calories).t = "num"
    /\ nd_ret = NdRaised("ValueError")
    /\ nd4_ret = Nd4Raised("ValueError")

OptionalFieldNames == <<"fiber", "sugar", "sodium">>

\* the number a truthy source value is coerced to
Coerced(v) ==
    CASE v.t = "num" -> v.n
      [] v.t = "bool" -> Scale
      [] OTHER -> FloatOfStr(v.s).n

\* C12: in what the seven-field create_nutrition_data_from_dict returns,
\* fiber, sugar and sodium are present exactly when the source value is
\* truthy, then with the source value coerced to a number; a missing key,
\* None, zero and the empty string are recorded as absent.
C12_OptionalIffTruthy ==
    (nd_pc # "start" /\ nd_ret.kind = "return") =>
        \A i \in 1..3 :
           LET v == DictGet(nd_data, OptionalKeys[i], NullV)
               field == nd_ret.nd[OptionalFieldNames[i]]
           IN  /\ field.some <=> Truthy(v)
               /\ field.some => field.v = Coerced(v)
               /\ (~HasKey(nd_data, OptionalKeys[i])
                     \/ v \in {NullV, NumV(0), StrV(<<>>)}) => field = None

\* C12 witness: a dict reporting fiber 0 and a sugar other than 0 has been
\* normalized to an absent fiber and a present sugar
C12_Witness ==
    /\ nd_pc # "start"
    /\ nd_ret.kind = "return"
    /\ HasKey(nd_data, K_fiber)
    /\ Lookup(nd_data, K_fiber) = NumV(0)
    /\ nd_ret.nd.fiber = None
    /\ HasKey(nd_data, K_sugar)
    /\ nd_ret.nd.sugar.some
    /\ nd_ret.nd.sugar.v = Lookup(nd_data, K_sugar).n

\* C13: normalizing the dict of a NutritionData that
\* create_nutrition_data_from_dict returned gives that NutritionData again:
\* the same four required fields, and fiber, sugar and sodium present or
\* absent as before with the same values.
C13_Idempotent ==
    nd_pc = "again" =>
        /\ nd4_again = nd4_ret
        /\ nd_ret.kind = "return" => nd_again = nd_ret

-----------------------------------------------------------------------------
(* More claims about the per-unit _parse_claude_response, under SpecParse *)

\* the characters of s that are no whitespace, in lower case
Letters(s, drop) ==
    LET kept == Without(s, drop \cup ReWS)
    IN  [i \in DOMAIN kept |-> Lower(kept[i])]

\* after how many characters other than whitespace s has whitespace, the
\* start and the end of s left out
Gaps(s) ==
    LET before(i) == Cardinality({ j \in 1..i : s[j] \notin ReWS })
        all == before(Len(s))
    IN  { before(i) : i \in { k \in DOMAIN s : s[k] \in ReWS } } \ {0, all}

\* out is src cleaned: no bracket, single spaces between words only, the
\* first character in upper case and the others in lower case, and the
\* words of src without its brackets
Cleaned(out, src) ==
    /\ \A i \in DOMAIN out : out[i] \notin Brackets
    /\ \A i \in DOMAIN out :
          out[i] \in ReWS => /\ out[i] = " "
                             /\ 1 < i /\ i < Len(out)
                             /\ out[i + 1] \notin ReWS
    /\ \A i \in DOMAIN out : out[i] = IF i = 1 THEN Upper(out[i]) ELSE Lower(out[i])
    /\ Letters(out, {}) = Letters(src, Brackets)
    /\ Gaps(out) = Gaps(Without(src, Brackets))

SourceName(k) == Lookup(pp_items[k], K_name).s

\* the two example names, cleaned
CleanedBirria ==
    clean_component_name(<<"S", "h", "r", "e", "d", "d", "e", "d", " ", "b", "e", "e", "f", " ", "(", "b", "i", "r", "r", "i", "a", ")">>)

CleanedOnion ==
    clean_component_name(<<" ", " ", "w", "h", "i", "t", "e", " ", "O", "N", "I", "O", "N", " ", "(", "d", "i", "c", "e", "d", ")", " ", " ">>)

\* C14: the name of every component built is the source name with the
\* characters ()[]{} removed, whitespace runs collapsed to one space, no
\* whitespace at either end, the first letter in upper case (the others in
\* lower case, as the second example shows); the two examples give
\* "Shredded beef birria" and "White onion diced".
C14_CleanName ==
    /\ \A k \in DOMAIN pp_components : Cleaned(pp_components[k].name, SourceName(k))
    /\ CleanedBirria = <<"S", "h", "r", "e", "d", "d", "e", "d", " ", "b", "e", "e", "f", " ", "b", "i", "r", "r", "i", "a">>
    /\ CleanedOnion = <<"W", "h", "i", "t", "e", " ", "o", "n", "i", "o", "n", " ", "d", "i", "c", "e", "d">>

\* C14 witness: both example names have been cleaned in one reply
C14_Witness ==
    /\ pp_ret = "return"
    /\ \E k \in DOMAIN pp_components :
          /\ SourceName(k) = <<"S", "h", "r", "e", "d", "d", "e", "d", " ", "b", "e", "e", "f", " ", "(", "b", "i", "r", "r", "i", "a", ")">>
          /\ pp_components[k].name = <<"S", "h", "r", "e", "d", "d", "e", "d", " ", "b", "e", "e", "f", " ", "b", "i", "r", "r", "i", "a">>
    /\ \E k \in DOMAIN pp_components :
          /\ SourceName(k) = <<" ", " ", "w", "h", "i", "t", "e", " ", "O", "N", "I", "O", "N", " ", "(", "d", "i", "c", "e", "d", ")", " ", " ">>
          /\ pp_components[k].name = <<"W", "h", "i", "t", "e", " ", "o", "n", "i", "o", "n", " ", "d", "i", "c", "e", "d">>

\* C15: a component whose quantity is zero, negative or no number, or
\* whose unit is not a non-empty string, makes the parse fail, so every
\* component of a result has a quantity above zero and a non-empty string
\* as unit.
C15_PositiveQuantity ==
    pp_ret = "return" =>
        \A k \in DOMAIN pp_result.components :
           /\ pp_result.components[k].quantity > 0
           /\ pp_result.components[k].unit.t = "str"
           /\ pp_result.components[k].unit.s # <<>>

\* the units the prompt names: _build_system_prompt
UnitVocabulary ==
    { <<"g">>, <<"m", "l">>, <<"p", "i", "e", "c", "e", "s">>,
      <<"s", "l", "i", "c", "e", "s">>, <<"c", "u", "p", "s">> }

\* C16: a component whose unit is not one of g, ml, pieces, slices, cups is
\* rejected, so every component of a result has a unit of that set.
C16_UnitInVocabulary ==
    pp_ret = "return" =>
        \A k \in DOMAIN pp_result.components :
           /\ pp_result.components[k].unit.t = "str"
           /\ pp_result.components[k].unit.s \in UnitVocabulary

\* a reply without dish name, without item type, or with an item type that
\* is none of the three
BadHeader(json) ==
    /\ json.t = "obj"
    /\ \/ ~HasKey(json, K_dishName)
       \/ ~HasKey(json, K_itemType)
       \/ Lookup(json, K_itemType) \notin { StrV(x) : x \in ItemTypes }

\* the loop over the components has ended and the result was not built
AssembleFailed ==
    /\ pp_pc = "done"
    /\ pp_ret # "return"
    /\ ComponentItems(response_json).st = "ok"
    /\ pp_i = Len(pp_items)

EndsWith(s, suffix) ==
    Len(s) >= Len(suffix) /\ SubSeq(s, Len(s) - Len(suffix) + 1, Len(s)) = suffix

\* the same for a reply of the direct-total variant
BadDirectHeader(json) ==
    /\ json.t = "obj"
    /\ \/ ~HasKey(json, K_dish_name)
       \/ ~HasKey(json, K_item_type)
       \/ Lookup(json, K_item_type) \notin { StrV(x) : x \in ItemTypes }

\* the loop of the direct-total variant has ended, the total of the reply
\* was read, and the result was not built
DirectAssembleFailed ==
    /\ dt_pc = "done"
    /\ dt_ret # "return"
    /\ ComponentItems(dt_json).st = "ok"
    /\ dt_i = Len(dt_items)
    /\ NutritionAt(dt_json, K_total_claude_estimate).kind = "return"

ItemTypeWord == <<"I", "t", "e", "m", "T", "y", "p", "e">>

BuiltFrom(comp, comp_data) ==
    \E out \in ComponentOutcomes(comp_data) : out.st = "ok" /\ out.comp = comp

\* the component the direct-total variant builds from one source component
DirectBuiltFrom(comp, comp_data) ==
    \E out \in { DirectOutcome(comp_data) } : out.st = "ok" /\ out.comp = comp

\* one component as get_api_response emits it
Emitted(item, comp) ==
    /\ item.name = comp.name
    /\ item.quantity = comp.quantity
    /\ item.unit = comp.unit
    /\ item.perUnitNutrition = comp.per_unit_nutrition
    /\ item.nutrition = comp.claude_estimate

\* C18: a result has as many components as the reply, its i-th component is
\* built from the i-th component of the reply, and get_api_response emits
\* them in that order; in the per-unit and in the direct-total variant.
C18_SourceOrder ==
    /\ pp_ret = "return" =>
          LET source == ComponentItems(response_json).items
          IN  /\ Len(pp_result.components) = Len(source)
              /\ \A i \in DOMAIN source : BuiltFrom(pp_result.components[i], source[i])
              /\ pp_pc = "done" =>
                    /\ Len(api_response.components) = Len(source)
                    /\ \A i \in DOMAIN source :
                          Emitted(api_response.components[i], pp_result.components[i])
    /\ dt_ret = "return" =>
          LET source == ComponentItems(dt_json).items
          IN  /\ Len(dt_result.components) = Len(source)
              /\ \A i \in DOMAIN source :
                    DirectBuiltFrom(dt_result.components[i], source[i])

\* C18 witness: a reply of two components that differ was parsed and
\* emitted, and the second could not have been built from the first
C18_Witness ==
    /\ pp_pc = "done"
    /\ pp_ret = "return"
    /\ Len(ComponentItems(response_json).items) = 2
    /\ Len(api_response.components) = 2
    /\ api_response.components[1].name # api_response.components[2].name
    /\ ~BuiltFrom(pp_result.components[2], ComponentItems(response_json).items[1])


\* C19: every result whose item type is meal has at least one component, in
\* the per-unit and in the direct-total variant: a reply of item type meal
\* whose components are missing or empty yields no result.
C19_MealNotEmpty ==
    /\ (pp_ret = "return" /\ pp_result.item_type = MEAL) =>
          pp_result.components # <<>>
    /\ (dt_ret = "return" /\ dt_result.item_type = MEAL) =>
          dt_result.components # <<>>

\* C20: in every result whose item type is meal, every component has item
\* type meal_component, in the per-unit and in the direct-total variant.
C20_MealComponentsOnly ==
    /\ (pp_ret = "return" /\ pp_result.item_type = MEAL) =>
          \A i \in DOMAIN pp_result.components :
             pp_result.components[i].item_type = MEAL_COMPONENT
    /\ (dt_ret = "return" /\ dt_result.item_type = MEAL) =>
          \A i \in DOMAIN dt_result.components :
             dt_result.components[i].item_type = MEAL_COMPONENT


-----------------------------------------------------------------------------
(* Claims about lambda_handler and analyze_food, under Spec *)

\* the body of the event once decoded, if it decodes to a dict
DecodedBody ==
    IF event.kind = "val" THEN event.v
    ELSE IF event.kind = "str" /\ JsonLoads(event.s).st = "ok" THEN JsonLoads(event.s).v
    ELSE NullV

\* base64 as RFC 4648 has it: groups of four characters of the alphabet, the
\* last group ending in at most two "="
ValidBase64(s) ==
    LET pads == Cardinality({ i \in DOMAIN s : i > Len(s) - 2 /\ s[i] = "=" /\
                              \A j \in i..Len(s) : s[j] = "=" })
    IN  /\ Len(s) % 4 = 0
        /\ \A i \in 1..(Len(s) - pads) : s[i] \in Base64Alphabet

\* an image that is a base64 string, with or without the data URI prefix
ValidImage(image) ==
    /\ image.t = "str"
    /\ IF StartsWith(image.s, DataImage)
       THEN Places(image.s, ",") # {} /\ ValidBase64(SecondPart(image.s, ","))
       ELSE ValidBase64(image.s)

\* the request gives neither a description nor an image, or an image that
\* is no valid base64
PreconditionViolated ==
    /\ DecodedBody.t = "obj"
    /\ LET td == DictGet(DecodedBody, K_textDescription, NullV)
           img == DictGet(DecodedBody, K_imageBase64, NullV)
       IN  \/ ~Truthy(td) /\ ~Truthy(img)
           \/ Truthy(img) /\ ~ValidImage(img)

\* C21: a request without description and image, or with an image that is
\* not valid base64, never reaches the model client and ends in a 400.
C21_PreconditionFirst ==
    (h_pc # "idle" /\ PreconditionViolated) =>
        /\ calls = 0
        /\ h_pc = "done" => h_response.statusCode = 400


RECURSIVE HasNan(_)
\* whether a decoded value holds a nan
HasNan(v) ==
    \/ v.t = "nan"
    \/ \E i \in DOMAIN v.items : HasNan(v.items[i])
    \/ \E i \in DOMAIN v.kv : HasNan(v.kv[i].v)

\* JSON as RFC 8259 has it: what json.loads accepts save the word NaN; an
\* integer too long for the interpreter is JSON all the same
ValidJson(s) ==
    \E r \in { JsonLoads(s) } : r.st = "raise" \/ (r.st = "ok" /\ ~HasNan(r.v))

\* C22: an event without body, or with a body that is a string and not
\* valid JSON, ends in a 400 and the analysis service is not invoked.
C22_BadBodyIs400 ==
    (h_pc = "done" /\ (event.kind = "none" \/ (event.kind = "str" /\ ~ValidJson(event.s)))) =>
        /\ h_response.statusCode = 400
        /\ calls = 0
        /\ request = NoRequest


\* the model replied and no result came of the reply: the extraction gave
\* nothing, or _parse_claude_response raised
ReplyFailed ==
    /\ h_pc = "done"
    /\ calls = 1
    /\ ex_pc = "done"
    /\ pp_ret # "return"

\* C23: a reply from which no result can be built (no parseable JSON, a
\* missing key, a null or non-numeric number, an unknown itemType) ends in
\* a 400 and never in a 500.
C23_ReplyFailureIs400 ==
    ReplyFailed => h_response.statusCode = 400


\* C24: every 500 has the same body, the fixed message, whatever failed:
\* two runs that end in a 500 give equal responses, and neither the
\* exception's message nor the reply is in them.
C24_Generic500 ==
    h_response.statusCode = 500 =>
        h_response = ErrorResponse(500, "Internal server error", <<>>)

\* C24 witness: _parse_claude_response raised a KeyError whose message
\* names dishName, and the run ended in the 500 with the fixed message
C24_Witness ==
    /\ h_pc = "done"
    /\ pp_ret = "KeyError"
    /\ pp_msg = Quoted(K_dishName)
    /\ text # <<>>
    /\ h_response.statusCode = 500
    /\ h_response.error = "Internal server error"

\* the reply of the model gave no result: extraction raised or returned
\* nothing usable, or _parse_claude_response raised
ReplyUnusable ==
    /\ ex_pc = "done"
    /\ \/ ex_ret.kind = "raise"
       \/ ex_ret.kind = "return" /\ ~Truthy(ex_ret.val)
       \/ pp_pc = "done" /\ pp_ret # "return"
       \/ dt_pc = "done" /\ dt_ret # "return"

\* C25: analyze_food of either variant calls the model at most once in
\* every execution, and a reply that cannot be used ends the call with an
\* error (a failure response of lambda_handler, an exception of the
\* direct-total variant) after exactly that one call.
C25_NoRetry ==
    /\ calls <= 1
    /\ da_calls <= 1
    /\ (h_pc = "done" /\ calls = 1 /\ ReplyUnusable)
          => h_response.statusCode \in {400, 500}
    /\ (da_pc = "done" /\ da_calls = 1 /\ ReplyUnusable)
          => da_out.ret \notin {"return", "pending"}
    /\ (h_pc \in {"extract", "parse"}) => calls = 1
    /\ (da_pc \in {"extract", "parse"}) => da_calls = 1

\* C25 witness: a reply without JSON ended lambda_handler's call with a
\* failure response after one call of the model
C25_Witness ==
    /\ h_pc = "done"
    /\ calls = 1
    /\ text = <<"s", "o", "r", "r", "y">>
    /\ ex_ret.kind = "return" /\ ~Truthy(ex_ret.val)
    /\ h_response.statusCode = 400

-----------------------------------------------------------------------------
(* Claims about the total of the direct-total variant, under SpecDirect *)

\* the total the reply states, normalized
SourceTotal ==
    create_nutrition_data_from_dict(Lookup(dt_json, K_total_claude_estimate)).nd

\* C26: in the direct-total variant the total_claude_estimate of a returned
\* result is the normalized total_claude_estimate of the reply, whatever
\* the components are: a stated total of 999 kcal stays 999 kcal with any
\* list of components.
C26_TotalFromSource ==
    (dt_pc = "done" /\ dt_ret = "return") =>
        /\ dt_result.total_claude_estimate = SourceTotal
        /\ Lookup(dt_json, K_total_claude_estimate) = Macros(9990, 10, 20, 30)
              => dt_result.total_claude_estimate
                    = NutritionData(9990, 10, 20, 30, None, None, None)

\* C26 witness: a result with two components of 205 kcal each whose total
\* is the 999 kcal the reply states
C26_Witness ==
    /\ dt_pc = "done"
    /\ dt_ret = "return"
    /\ Len(dt_result.components) = 2
    /\ \A i \in 1..2 : dt_result.components[i].claude_estimate.calories = 2050
    /\ dt_result.total_claude_estimate.calories = 9990

-----------------------------------------------------------------------------
(* Claims about the values of results, under SpecBoth *)

\* the four required fields of a NutritionData are not negative
RequiredNonNegative(n) ==
    /\ n.calories >= 0
    /\ n.protein >= 0
    /\ n.carbs >= 0
    /\ n.fat >= 0

\* C27: in every result returned, the four required fields of every
\* NutritionData (a component's nutrition, its per-unit rate, the total) are
\* not negative, in the per-unit and in the direct-total variant.
C27_RequiredNonNegative ==
    /\ pp_ret = "return" =>
          /\ RequiredNonNegative(pp_result.total_claude_estimate)
          /\ \A i \in DOMAIN pp_result.components :
                /\ RequiredNonNegative(pp_result.components[i].claude_estimate)
                /\ RequiredNonNegative(pp_result.components[i].per_unit_nutrition)
    /\ dt_ret = "return" =>
          /\ RequiredNonNegative(dt_result.total_claude_estimate)
          /\ \A i \in DOMAIN dt_result.components :
                RequiredNonNegative(dt_result.components[i].claude_estimate)

-----------------------------------------------------------------------------
(* Claims about lambda_handler as a whole, under Spec *)

\* C28: lambda_handler always comes to a response: as long as it has not
\* returned it stands at a statement that can run (the guard of one of its
\* steps holds), and what it returns has statusCode 200, 400 or 500, also for a body that is JSON but no object and for every
\* exception of the service; statusCode 200 is returned only after one call
\* of the model whose reply was parsed into a result and after
\* get_api_response produced the body returned.
C28_HandlerTotal ==
    /\ h_pc \in {"start", "analyze", "call", "extract", "parse", "done"}
    /\ h_pc = "extract" => ex_pc \in {"start", "selected", "done"}
    /\ h_pc = "parse" =>
          /\ pp_pc \in {"begin", "loop", "respond", "done"}
          /\ pp_pc = "loop" => pp_i <= Len(pp_items)
    /\ h_pc # "done" => h_response = NoResponse
    /\ h_pc = "done" => h_response.statusCode \in {200, 400, 500}
    /\ h_response.statusCode = 200 =>
          /\ h_pc = "done"
          /\ calls = 1
          /\ ex_pc = "done" /\ ex_ret.kind = "return"
          /\ pp_pc = "done" /\ pp_ret = "return"
          /\ h_response.body = get_api_response(pp_result)

\* C28 witness: a body string that is JSON but no object was answered with
\* 500 and the service was not called
C28_Witness ==
    /\ h_pc = "done"
    /\ event = StrBody(<<"[", "1", "]">>)
    /\ calls = 0
    /\ h_response.statusCode = 500

-----------------------------------------------------------------------------
(* Claims about analyze_food of both variants, under SpecCore *)

FailedToParse == "Failed to parse JSON from Claude response: "

\* C29: analyze_food of either variant ends with the error 'Failed to parse
\* JSON from Claude response' only when extract_json_from_response returned
\* None; an object that was parsed from the reply, the empty object {}
\* included, is handed to _parse_claude_response.
C29_FailureOnlyWhenAbsent ==
    /\ (h_pc = "done" /\ h_response.error = FailedToParse) =>
          (ex_ret.kind = "return" /\ ex_ret.val = NullV)
    /\ (da_pc = "done" /\ da_out.message = FailedToParse) =>
          (ex_ret.kind = "return" /\ ex_ret.val = NullV)
    /\ (ex_pc = "done" /\ ex_ret.kind = "return" /\ ex_ret.val.t = "obj") =>
          /\ h_pc = "done" => pp_pc = "done"
          /\ da_pc = "done" => dt_pc = "done"

-----------------------------------------------------------------------------
(* Claims about the batch endpoint, under SpecBatch *)

Failed == { i \in DOMAIN futures : futures[i].st = "failed" }

\* C30: whatever the order in which the lookups start, return and raise,
\* never more than max_workers of them run at once; every entry appended,
\* and so the i-th entry of a 200 answer, pairs the i-th product name with
\* what the lookup of the i-th task returned; a 200 answer has one entry per
\* product; and when a lookup has failed the answer is 500 and carries no
\* entries.
C30_BatchPairsInOrder ==
    /\ Cardinality(Running) <= max_workers
    /\ \A i \in DOMAIN results :
          /\ futures[i].st = "ok"
          /\ results[i] = BatchEntry(products[i], futures[i].result)
    /\ bt_pc = "done" =>
          /\ bt_response.status \in {200, 500}
          /\ Settled
          /\ bt_response.status = 200 <=> Failed = {}
          /\ bt_response.status = 200 =>
                /\ bt_response.entries = results
                /\ Len(bt_response.entries) = Len(products)
          /\ bt_response.status = 500 =>
                /\ bt_response.entries = <<>>
                /\ bt_response.detail \in Failed

\* C30 witness: six products were answered with six entries; the product
\* named twice, first and third, got the results of its own two lookups,
\* which differ
C30_Witness ==
    /\ bt_pc = "done"
    /\ bt_response.status = 200
    /\ Len(products) = MaxProducts
    /\ Len(bt_response.entries) = MaxProducts
    /\ products[1] = products[3]
    /\ futures[1].result # futures[3].result
    /\ bt_response.entries[1].nutrition = InfoDict(futures[1].result)
    /\ bt_response.entries[3].nutrition = InfoDict(futures[3].result)

=============================================================================
